---- MODULE Spec2Model ----
(***************************************************************************)
(* Hive AI Agent: the tool-calling conversation loop of HiveAgent          *)
(* (agent.py) together with the dispatcher of HiveApiClient                *)
(* (api_client.py).                                                        *)
(*                                                                         *)
(* One session (one HiveAgent instance) is driven by one caller at a time: *)
(* a chat call runs step by step, each step ending at the next point where *)
(* the code talks to an external service (retrieval, the language model,   *)
(* the Hive REST API).  A chat call that raises leaves the session alive,  *)
(* as under web_app.chat, which turns the exception into an HTTP 500 and   *)
(* keeps the agent in the registry.                                        *)
(*                                                                         *)
(* Spec is that session; SpecWeb is the web application (web_app.py) with  *)
(* its registry of sessions and its worker threads; SpecRag is the         *)
(* retriever over the vector store (rag/); SpecCli is the command line     *)
(* program (main.py); SpecBuild is two logins whose retrievers are         *)
(* constructed at once on the one collection.                              *)
(***************************************************************************)
EXTENDS Integers, Sequences, FiniteSets, TLC

(***************************************************************************)
(* Bounds of the model.                                                    *)
(***************************************************************************)
\* chat calls started on the session
MaxTurns == 2
\* tool calls the language model issues over the life of the session
MaxIds == 2
\* tool calls in one model response
MaxCalls == 2
\* requests the web application accepts, the logins that create a session
\* aside
MaxRequests == 2
\* operations started on retrievers: constructions, retrievals, rebuilds
MaxOps == 4
\* lines the command line program reads at its prompt
MaxInputs == 3
\* rag.n_results of the configuration: the result count of a retrieval
RAG_N_RESULTS == 2

(***************************************************************************)
(* Values.                                                                 *)
(***************************************************************************)
SYSTEM_PROMPT == "system prompt"

\* user texts handed to chat
UserInputs == {"drop public.measure"}

\* what RAGRetriever.retrieve returns: the joined documents, "" when the
\* query returned none
RagContexts == {"doc1"}

\* texts the language model answers with
ModelTexts == {"answer", "done"}

\* token of the login the session was created with
Tokens == {"tok1"}

\* config.py: the collection the retriever is bound to
RAG_COLLECTION_NAME == "hive_knowledge"

\* main.py: the login attempts authenticate allows
MAX_LOGIN_ATTEMPTS == 3

\* no call identifier (a message that answers no tool call)
NoId == 0

(***************************************************************************)
(* tools.py: the catalog handed to the first model call.                   *)
(***************************************************************************)
TOOLS ==
    [ delete_table   |-> {"schema", "table_name"},
      create_table   |-> {"schema", "table_name", "columns"},
      get_table_info |-> {"schema", "table_name"},
      list_tables    |-> {"schema"},
      list_databases |-> {} ]

CatalogNames == DOMAIN TOOLS

(***************************************************************************)
(* The argument payload of a tool call is a string the model produced;     *)
(* json.loads turns it into a value or raises.                             *)
(***************************************************************************)
JsonObject(keys) == [json |-> "object", keys |-> keys]
JsonArray        == [json |-> "array", keys |-> {}]
JsonInvalid      == [json |-> "invalid", keys |-> {}]

\* json.loads(tool_call.function.arguments)
JsonLoads(arguments) ==
    IF arguments.json = "invalid"
    THEN [raised |-> TRUE, value |-> [type |-> "none", keys |-> {}]]
    ELSE IF arguments.json = "object"
         THEN [raised |-> FALSE, value |-> [type |-> "dict", keys |-> arguments.keys]]
         ELSE [raised |-> FALSE, value |-> [type |-> "list", keys |-> {}]]

(***************************************************************************)
(* api_client.py                                                           *)
(***************************************************************************)
\* what the HTTP request of a handler ends in: a response, or
\* httpx.RequestError (timeout, connection refused)
TransportError == [kind |-> "transport_error", status_code |-> 0, is_json |-> FALSE]
HttpResponse(status, isJson) == [kind |-> "response", status_code |-> status, is_json |-> isJson]
RemoteOutcomes == {HttpResponse(200, TRUE), HttpResponse(404, TRUE), TransportError}

\* httpx.Response.is_success
IsSuccess(response) == response.status_code >= 200 /\ response.status_code <= 299

\* HiveApiClient._handle_response
HandleResponse(response) ==
    [ status_code |-> response.status_code,
      success     |-> IsSuccess(response),
      data        |-> IF response.is_json THEN "json" ELSE "raw" ]

\* delete_table reading a["table"], the key of the request body, in place of
\* a["table_name"]
DispatchReadsBodyKey ==
    [ delete_table   |-> {"schema", "table"},
      create_table   |-> {"schema", "table_name", "columns"},
      get_table_info |-> {"schema", "table_name"},
      list_tables    |-> {"schema"},
      list_databases |-> {} ]

\* the keys a["..."] each lambda of the dispatch table reads
DispatchReads ==
    [ delete_table   |-> {"schema", "table_name"},
      create_table   |-> {"schema", "table_name", "columns"},
      get_table_info |-> {"schema", "table_name"},
      list_tables    |-> {"schema"},
      list_databases |-> {} ]

NoResult == [none |-> TRUE]

Raised(exc, requested) ==
    [raised |-> TRUE, exc |-> exc, requested |-> requested, result |-> NoResult]
Returned(result, requested) ==
    [raised |-> FALSE, exc |-> "", requested |-> requested, result |-> result]

\* a lambda of the dispatch table and the method it calls: the reads
\* a["..."], the HTTP request, _handle_response; remote is what the request
\* ends in if it is sent
Handler(tool_name, tool_args, remote) ==
    IF DispatchReads[tool_name] # {} /\ tool_args.type # "dict"
    THEN Raised("TypeError", FALSE)
    ELSE IF ~(DispatchReads[tool_name] \subseteq tool_args.keys)
         THEN Raised("KeyError", FALSE)
         ELSE IF remote.kind = "transport_error"
              THEN Raised("RequestError", TRUE)
              ELSE Returned(HandleResponse(remote), TRUE)

\* the sentinel envelope of line 221
UnknownTool(tool_name) == [success |-> FALSE, error |-> tool_name]

\* dispatch[tool_name] in place of dispatch.get(tool_name)
ExecuteToolSubscript(tool_name, tool_args, remote) ==
    IF tool_name \notin DOMAIN DispatchReads
    THEN Raised("KeyError", FALSE)
    ELSE Handler(tool_name, tool_args, remote)

\* HiveApiClient.execute_tool(tool_name, tool_args)
ExecuteTool(tool_name, tool_args, remote) ==
    IF tool_name \notin DOMAIN DispatchReads
    THEN Returned(UnknownTool(tool_name), FALSE)
    ELSE Handler(tool_name, tool_args, remote)

(***************************************************************************)
(* Conversation messages.                                                  *)
(***************************************************************************)
Message(role, content, tool_calls, tool_call_id, name) ==
    [ role |-> role, content |-> content, tool_calls |-> tool_calls,
      tool_call_id |-> tool_call_id, name |-> name ]

Text(s) == [kind |-> "text", text |-> s]

\* the f-string of chat: context section, then request section
Augmented(rag_context, user_input) ==
    [kind |-> "augmented", context |-> rag_context, request |-> user_input]

\* json.dumps(result, ensure_ascii=False)
JsonDumps(result) == [kind |-> "json", value |-> result]

SystemMessage == Message("system", Text(SYSTEM_PROMPT), <<>>, NoId, "")
UserMessage(rag_context, user_input) ==
    Message("user", Augmented(rag_context, user_input), <<>>, NoId, "")
AssistantMessage(content) == Message("assistant", Text(content), <<>>, NoId, "")
\* the SDK message object of the first response, appended as it is
ToolCallMessage(calls) == Message("assistant", Text(""), calls, NoId, "")
ToolMessage(tool_call, result) ==
    Message("tool", JsonDumps(result), <<>>, tool_call.id, tool_call.name)

(***************************************************************************)
(* State.                                                                  *)
(***************************************************************************)
VARIABLES
    messages,      \* HiveAgent.messages
    api_client,    \* HiveAgent.api_client
    retriever,     \* HiveAgent.retriever
    pc,            \* where the session's caller is
    user_input,    \* chat: the argument
    tool_calls,    \* chat: message.tool_calls of the first response
    idx,           \* chat: position of the for loop in tool_calls
    tool_results,  \* chat: the local list tool_results
    outcome,       \* how the last chat call ended: return value or raise
    start_len,     \* history: Len(messages) when the chat call began
    llm_calls,     \* history: model calls of the current chat call
    executed,      \* history: execute_tool calls of the current chat call
    turns,         \* chat calls started
    next_id,       \* language model: next call identifier it hands out
    prior          \* history: messages when the chat call began

VARIABLES
    sessions,      \* web_app.sessions: session_id -> HiveAgent, with the agents popped
    threads,       \* web_app: the request each worker thread is serving
    api_log,       \* Hive REST API: the requests it received, with their token
    accepted,      \* web_app: requests accepted so far
    response       \* web_app: the response sent last, its endpoint and status

web_vars == << sessions, threads, api_log, accepted, response >>

VARIABLES
    corpus,        \* RAG_KNOWLEDGE_DIR: the documents of the JSON files
    store,         \* PostgreSQL: the committed rows of the collection table
    conn,          \* VectorStore.conn: the connection and its open transaction
    rag,           \* RAGRetriever: where its caller is, and the locals
    rag_log,       \* history: what the current retriever operation has done
    upserted       \* history: id -> the row of the last upsert call that returned

rag_vars == << corpus, store, conn, rag, rag_log, upserted >>

VARIABLES
    cli            \* main.py: where the command line program is, and what it did

VARIABLES
    builders       \* the RAGRetriever constructors of two logins served at once

\* what HiveAgent.chat and HiveAgent.reset never touch
others == << web_vars, rag_vars, cli, builders >>

vars == << messages, api_client, retriever, pc, user_input, tool_calls, idx,
           tool_results, outcome, start_len, llm_calls, executed, turns, next_id,
           prior, others >>

\* the state of one HiveAgent driven by one caller
agent_vars == << messages, api_client, retriever, pc, user_input, tool_calls, idx,
                 tool_results, outcome, start_len, llm_calls, executed, turns, prior >>

locals == << user_input, tool_calls, idx, tool_results >>

NoOutcome      == [kind |-> "none", value |-> "", step |-> ""]
ReturnOf(text) == [kind |-> "return", value |-> text, step |-> ""]
RaiseAt(step)  == [kind |-> "raise", value |-> "", step |-> step]

\* no chat call is in progress
Quiet == pc \in {"ready", "returned", "failed"}

(***************************************************************************)
(* The web application before its first request, and the knowledge base    *)
(* before the first retriever.                                             *)
(***************************************************************************)
NoSession == "none"

\* a worker thread between two requests
IdleThread ==
    [ pc |-> "idle", sid |-> NoSession, user_input |-> << >>, tool_calls |-> << >>,
      idx |-> 0, tool_results |-> << >> ]

\* the worker threads of the server's thread pool
Threads == {1, 2}

NoResponse == [endpoint |-> "none", status |-> 0]

WebInit ==
    /\ sessions = [s \in {} |-> << >>]
    /\ threads = [t \in Threads |-> IdleThread]
    /\ response = NoResponse
    /\ api_log = {}
    /\ accepted = 0

\* a table without rows: id -> row
EmptyRows == [id \in {} |-> << >>]

\* no connection, or one that was closed; closing discards what was pending
ClosedConn == [state |-> "closed", pending |-> EmptyRows]

\* no RAGRetriever object
NoRetriever == [pc |-> "absent", op |-> "none", docs |-> << >>, embeddings |-> << >>]

\* the record of a retriever operation: what it has called so far
NewLog(op, n, before) ==
    [ op |-> op, started |-> n, ended |-> "running", count_seen |-> 0,
      loads |-> 0, batches |-> 0, embeds |-> 0, upserts |-> 0, queries |-> << >>,
      loaded |-> << >>, response |-> << >>, query |-> << >>,
      before |-> before, before_upsert |-> before,
      upsert |-> "none", result |-> << >> ]

RagInit ==
    /\ corpus = << >>
    /\ store = EmptyRows
    /\ conn = ClosedConn
    /\ rag = NoRetriever
    /\ rag_log = NewLog("none", 0, EmptyRows)
    /\ upserted = EmptyRows

\* no token yet
NoToken == "none"

\* main.py before authenticate: attempt is the loop variable of authenticate,
\* tried the outcomes of the logins made, agent the state of the HiveAgent
\* ("none", "open", "closed"), calls the calls made on it, reads the lines
\* asked for at the prompt of the loop, exit how the program ended
CliInit ==
    cli = [ pc |-> "login", attempt |-> 1, tried |-> << >>, token |-> NoToken,
            agent |-> "none", calls |-> << >>, reads |-> 0, exit |-> "none" ]

\* the logins whose HiveAgent constructors run side by side
Builders == {1, 2}

\* a login that has not reached RAGRetriever() yet: count_seen is what its
\* count() read, docs the documents it loaded, pending the rows its
\* connection has written and not committed, done the executes of upsert
\* that went through
NoBuilder ==
    [ pc |-> "absent", count_seen |-> 0, docs |-> << >>, embeddings |-> << >>,
      pending |-> EmptyRows, done |-> 0 ]

BuildInit == builders = [b \in Builders |-> NoBuilder]

(***************************************************************************)
(* HiveAgent.__init__                                                      *)
(***************************************************************************)
Init ==
    /\ WebInit
    /\ RagInit
    /\ CliInit
    /\ BuildInit
    /\ messages = << SystemMessage >>
    /\ api_client \in [token : Tokens]
    /\ retriever = [collection |-> RAG_COLLECTION_NAME]
    /\ pc = "ready"
    /\ user_input = ""
    /\ tool_calls = <<>>
    /\ idx = 0
    /\ tool_results = <<>>
    /\ outcome = NoOutcome
    /\ start_len = 1
    /\ llm_calls = <<>>
    /\ executed = <<>>
    /\ turns = 0
    /\ next_id = 1
    /\ prior = << SystemMessage >>

(***************************************************************************)
(* The language model (external): what one chat.completions.create call    *)
(* ends in.  It raises, or answers with a text and a list of tool calls;   *)
(* each call it issues gets a fresh identifier.                            *)
(***************************************************************************)
\* the calls the model asks for: a tool name and an argument payload;
\* drop_database is a name outside the catalog
CallRequests ==
    { [name |-> "list_databases", arguments |-> JsonObject({})],
      [name |-> "delete_table",   arguments |-> JsonObject({"schema", "table_name"})],
      [name |-> "delete_table",   arguments |-> JsonObject({})],
      [name |-> "list_tables",    arguments |-> JsonArray],
      [name |-> "drop_database",  arguments |-> JsonObject({})],
      [name |-> "list_databases", arguments |-> JsonInvalid] }

\* the n call requests of one response, n <= MaxCalls
RequestLists == UNION {[1..n -> CallRequests] : n \in 0..MaxCalls}

\* the tool_calls of a response: the requests, numbered from next_id on
ToolCallsOf(requests, first_id) ==
    [k \in 1..Len(requests) |->
        [ id        |-> first_id + k - 1,
          name      |-> requests[k].name,
          arguments |-> requests[k].arguments ]]

\* one chat.completions.create call: whether tools=TOOLS was passed, how many
\* messages it was given, and the text it answered ("" when it raised or
\* answered with tool calls)
LlmCall(with_tools, content) ==
    [tools |-> with_tools, n_messages |-> Len(messages), content |-> content]

(***************************************************************************)
(* HiveAgent.chat                                                          *)
(***************************************************************************)
\* lines 82-91: retrieval, then the augmented user message
ChatStart ==
    /\ Quiet
    /\ turns < MaxTurns
    /\ turns' = turns + 1
    /\ start_len' = Len(messages)
    /\ llm_calls' = <<>>
    /\ executed' = <<>>
    /\ tool_calls' = <<>>
    /\ idx' = 0
    /\ tool_results' = <<>>
    /\ \E text \in UserInputs :
         /\ user_input' = text
         /\ \/ \* retriever.retrieve raises (embedding call or store query)
               /\ pc' = "failed"
               /\ outcome' = RaiseAt("retrieve")
               /\ UNCHANGED messages
            \/ \E rag_context \in RagContexts :
                 /\ messages' = Append(messages, UserMessage(rag_context, text))
                 /\ pc' = "llm1"
                 /\ outcome' = NoOutcome
    /\ prior' = messages
    /\ UNCHANGED << others, api_client, retriever, next_id >>

\* the failed call undone: the user message is taken back out of the history
FirstCallRaisesRollsBack ==
    /\ llm_calls' = Append(llm_calls, LlmCall(TRUE, ""))
    /\ pc' = "failed"
    /\ outcome' = RaiseAt("llm1")
    /\ messages' = prior
    /\ UNCHANGED << tool_calls, idx, tool_results, next_id >>

\* lines 94-101, the call raising
FirstCallRaises ==
    /\ llm_calls' = Append(llm_calls, LlmCall(TRUE, ""))
    /\ pc' = "failed"
    /\ outcome' = RaiseAt("llm1")
    /\ UNCHANGED << messages, tool_calls, idx, tool_results, next_id >>

\* the early return left out: the text is appended and the turn goes on to
\* the second model call
FirstCallNoToolFallsThrough ==
    \E content \in ModelTexts :
       /\ llm_calls' = Append(llm_calls, LlmCall(TRUE, content))
       /\ messages' = Append(messages, AssistantMessage(content))
       /\ pc' = "llm2"
       /\ outcome' = NoOutcome
       /\ UNCHANGED << tool_calls, idx, tool_results, next_id >>

\* lines 104-106: no tool call, the text is the answer
FirstCallNoTool ==
    \E content \in ModelTexts :
       /\ llm_calls' = Append(llm_calls, LlmCall(TRUE, content))
       /\ messages' = Append(messages, AssistantMessage(content))
       /\ pc' = "returned"
       /\ outcome' = ReturnOf(content)
       /\ UNCHANGED << tool_calls, idx, tool_results, next_id >>

\* lines 110-111: tool calls, the response message goes into the history as
\* it is
FirstCallToolCalls ==
    \E requests \in RequestLists \ { <<>> } :
       /\ next_id + Len(requests) - 1 <= MaxIds
       /\ next_id' = next_id + Len(requests)
       /\ llm_calls' = Append(llm_calls, LlmCall(TRUE, ""))
       /\ tool_calls' = ToolCallsOf(requests, next_id)
       /\ messages' = Append(messages, ToolCallMessage(ToolCallsOf(requests, next_id)))
       /\ tool_results' = <<>>
       /\ idx' = 1
       /\ pc' = "loop"
       /\ outcome' = NoOutcome

\* lines 94-111: the first model call, with the tool catalog
ChatFirstCall ==
    /\ pc = "llm1"
    /\ \/ FirstCallRaises
       \/ FirstCallNoTool
       \/ FirstCallToolCalls
    /\ UNCHANGED << others, api_client, retriever, prior, user_input, start_len, executed, turns >>

\* lines 113-130: one pass of the for loop over message.tool_calls
ChatToolCall ==
    /\ pc = "loop"
    /\ idx <= Len(tool_calls)
    /\ LET tool_call == tool_calls[idx]
           loaded    == JsonLoads(tool_call.arguments)
       IN  IF loaded.raised
           THEN /\ pc' = "failed"
                /\ outcome' = RaiseAt("json.loads")
                /\ UNCHANGED << idx, tool_results, executed >>
           ELSE \E remote \in RemoteOutcomes :
                  LET done == ExecuteTool(tool_call.name, loaded.value, remote)
                  IN  /\ executed' = Append(executed,
                                       [ id |-> tool_call.id, name |-> tool_call.name,
                                         args |-> loaded.value,
                                         raised |-> done.raised,
                                         requested |-> done.requested,
                                         result |-> done.result ])
                      /\ IF done.raised
                         THEN /\ pc' = "failed"
                              /\ outcome' = RaiseAt("execute_tool")
                              /\ UNCHANGED << idx, tool_results >>
                         ELSE /\ tool_results' =
                                   Append(tool_results, ToolMessage(tool_call, done.result))
                              /\ idx' = idx + 1
                              /\ UNCHANGED << pc, outcome >>
    /\ UNCHANGED << others, messages, api_client, retriever, prior, user_input, tool_calls,
                    start_len, llm_calls, turns, next_id >>

\* the results put in front of one another instead of appended
ChatExtendReversed ==
    /\ pc = "loop"
    /\ idx > Len(tool_calls)
    /\ messages' = messages \o [k \in 1..Len(tool_results) |->
                                   tool_results[Len(tool_results) + 1 - k]]
    /\ pc' = "llm2"
    /\ UNCHANGED << others, api_client, retriever, prior, locals, outcome, start_len,
                    llm_calls, executed, turns, next_id >>

\* line 133: messages.extend(tool_results), once the loop is through
ChatExtend ==
    /\ pc = "loop"
    /\ idx > Len(tool_calls)
    /\ messages' = messages \o tool_results
    /\ pc' = "llm2"
    /\ UNCHANGED << others, api_client, retriever, prior, locals, outcome, start_len,
                    llm_calls, executed, turns, next_id >>

\* the second call made like the first, with tools=TOOLS
ChatSecondCallWithTools ==
    /\ pc = "llm2"
    /\ \/ /\ llm_calls' = Append(llm_calls, LlmCall(TRUE, ""))
          /\ pc' = "failed"
          /\ outcome' = RaiseAt("llm2")
          /\ UNCHANGED messages
       \/ \E final_message \in ModelTexts :
            /\ llm_calls' = Append(llm_calls, LlmCall(TRUE, final_message))
            /\ messages' = Append(messages, AssistantMessage(final_message))
            /\ pc' = "returned"
            /\ outcome' = ReturnOf(final_message)
    /\ UNCHANGED << others, api_client, retriever, prior, locals, start_len, executed, turns, next_id >>

\* the final answer returned without being appended to the history
ChatSecondCallNoAppend ==
    /\ pc = "llm2"
    /\ \/ /\ llm_calls' = Append(llm_calls, LlmCall(FALSE, ""))
          /\ pc' = "failed"
          /\ outcome' = RaiseAt("llm2")
          /\ UNCHANGED messages
       \/ \E final_message \in ModelTexts :
            /\ llm_calls' = Append(llm_calls, LlmCall(FALSE, final_message))
            /\ UNCHANGED messages
            /\ pc' = "returned"
            /\ outcome' = ReturnOf(final_message)
    /\ UNCHANGED << others, api_client, retriever, prior, locals, start_len, executed, turns, next_id >>

\* lines 137-145: the second model call, without the tool catalog
ChatSecondCall ==
    /\ pc = "llm2"
    /\ \/ \* the call raises
          /\ llm_calls' = Append(llm_calls, LlmCall(FALSE, ""))
          /\ pc' = "failed"
          /\ outcome' = RaiseAt("llm2")
          /\ UNCHANGED messages
       \/ \E final_message \in ModelTexts :
            /\ llm_calls' = Append(llm_calls, LlmCall(FALSE, final_message))
            /\ messages' = Append(messages, AssistantMessage(final_message))
            /\ pc' = "returned"
            /\ outcome' = ReturnOf(final_message)
    /\ UNCHANGED << others, api_client, retriever, prior, locals, start_len, executed, turns, next_id >>

(***************************************************************************)
(* HiveAgent.reset                                                         *)
(***************************************************************************)
\* messages.clear() in place of the rebuilt list: the preamble goes too
ResetClearsAll ==
    /\ Quiet
    /\ messages' = << >>
    /\ pc' = "ready"
    /\ user_input' = ""
    /\ tool_calls' = <<>>
    /\ idx' = 0
    /\ tool_results' = <<>>
    /\ outcome' = NoOutcome
    /\ start_len' = 1
    /\ llm_calls' = <<>>
    /\ executed' = <<>>
    /\ prior' = << SystemMessage >>
    /\ UNCHANGED << others, api_client, retriever, turns, next_id >>

Reset ==
    /\ Quiet
    /\ messages' = << SystemMessage >>
    /\ pc' = "ready"
    \* the record of the last chat call ends with it
    /\ user_input' = ""
    /\ tool_calls' = <<>>
    /\ idx' = 0
    /\ tool_results' = <<>>
    /\ outcome' = NoOutcome
    /\ start_len' = 1
    /\ llm_calls' = <<>>
    /\ executed' = <<>>
    /\ prior' = << SystemMessage >>
    /\ UNCHANGED << others, api_client, retriever, turns, next_id >>

Next ==
    \/ ChatStart
    \/ ChatFirstCall
    \/ ChatToolCall
    \/ ChatExtend
    \/ ChatSecondCall
    \/ Reset

Spec == Init /\ [][Next]_vars

(***************************************************************************)
(* Reading the history.                                                    *)
(***************************************************************************)
\* an assistant message that carries tool calls
BearsToolCalls(m) == m.role = "assistant" /\ m.tool_calls # <<>>

\* the call identifiers a message issued
IssuedIds(m) == { m.tool_calls[k].id : k \in 1..Len(m.tool_calls) }

\* positions after i of the tool messages answering call identifier id
AnswersAfter(h, i, id) ==
    { j \in (i+1)..Len(h) : h[j].role = "tool" /\ h[j].tool_call_id = id }

\* every issued call has exactly one later tool message, and every tool
\* message has an earlier message that issued its identifier
Paired(h) ==
    /\ \A i \in 1..Len(h) :
         BearsToolCalls(h[i]) =>
            \A id \in IssuedIds(h[i]) : Cardinality(AnswersAfter(h, i, id)) = 1
    /\ \A j \in 1..Len(h) :
         h[j].role = "tool" =>
            \E i \in 1..(j-1) :
               BearsToolCalls(h[i]) /\ h[j].tool_call_id \in IssuedIds(h[i])

\* every tool-call-bearing message is directly followed by its tool
\* messages, one per call it issued
DirectlyAnswered(h) ==
    \A i \in 1..Len(h) :
       BearsToolCalls(h[i]) =>
          LET n == Len(h[i].tool_calls)
          IN  /\ i + n <= Len(h)
              /\ \A k \in 1..n : h[i+k].role = "tool"
              /\ { h[i+k].tool_call_id : k \in 1..n } = IssuedIds(h[i])

\* the current chat call got tool calls from the first model call
InvolvedTools == tool_calls # <<>>

\* the current chat call has appended its tool messages (line 133 is done)
Extended ==
    \/ pc \in {"llm2", "returned"}
    \/ pc = "failed" /\ outcome.step = "llm2"

\* an execute_tool call that did not succeed: it raised, or its envelope
\* says success = false
Unsuccessful(e) == e.raised \/ ~e.result.success

(***************************************************************************)
(* C1.  After any chat call that returns and that involved tool calls,     *)
(* every tool-call-bearing assistant message of the history has exactly    *)
(* one later tool message per call identifier it issued, and no tool       *)
(* message is in the history without an earlier assistant message that     *)
(* issued its identifier.                                                  *)
(***************************************************************************)
C1_PairingAfterCompletedTurn ==
    (pc = "returned" /\ InvolvedTools) => Paired(messages)

(***************************************************************************)
(* C2.  Whenever no turn is in progress, also after a chat call that       *)
(* failed mid-sequence, every tool-call-bearing assistant message is       *)
(* directly followed by exactly one tool message per call it issued: no    *)
(* tool call is left in the history without its result.                    *)
(***************************************************************************)
C2_HistorySelfConsistent ==
    Quiet => DirectlyAnswered(messages)

(***************************************************************************)
(* C3.  Tool calls are executed in the order the model returned them and   *)
(* answered in that order: the execute_tool calls of a turn are the calls  *)
(* c1, c2, ... of the first response, in that order, and once the tool     *)
(* messages are appended they stand directly after the tool-call-bearing   *)
(* assistant message, the i-th one carrying the identifier and the tool    *)
(* name of ci.                                                             *)
(***************************************************************************)
C3_ExecutedAndAnsweredInOrder ==
    (pc # "ready" /\ InvolvedTools) =>
       /\ Len(executed) <= Len(tool_calls)
       /\ \A k \in 1..Len(executed) :
            /\ executed[k].id = tool_calls[k].id
            /\ executed[k].name = tool_calls[k].name
            /\ executed[k].args = JsonLoads(tool_calls[k].arguments).value
       /\ Extended =>
            /\ Len(executed) = Len(tool_calls)
            /\ Len(messages) >= start_len + 2 + Len(tool_calls)
            /\ messages[start_len + 2] = ToolCallMessage(tool_calls)
            /\ \A k \in 1..Len(tool_calls) :
                 /\ messages[start_len + 2 + k].role = "tool"
                 /\ messages[start_len + 2 + k].tool_call_id = tool_calls[k].id
                 /\ messages[start_len + 2 + k].name = tool_calls[k].name
                 /\ messages[start_len + 2 + k].content = JsonDumps(executed[k].result)

\* a turn with two tool calls, both executed and answered
C3_Witness ==
    /\ pc = "returned"
    /\ Len(tool_calls) = 2
    /\ Len(executed) = 2
    /\ tool_calls[1].name # tool_calls[2].name

(***************************************************************************)
(* C4.  A failure in one tool call does not prevent issuing the remaining  *)
(* calls: when the execution of some call of a turn fails, every call of   *)
(* the first response is still executed and the turn appends one tool      *)
(* message for each of them.                                               *)
(***************************************************************************)
C4_FailureDoesNotStopRemainingCalls ==
    ( /\ pc \in {"returned", "failed"}
      /\ InvolvedTools
      /\ \E k \in 1..Len(executed) : Unsuccessful(executed[k]) ) =>
       /\ Len(executed) = Len(tool_calls)
       /\ Len(messages) >= start_len + 2 + Len(tool_calls)
       /\ \A k \in 1..Len(tool_calls) :
            /\ messages[start_len + 2 + k].role = "tool"
            /\ messages[start_len + 2 + k].tool_call_id = tool_calls[k].id

(***************************************************************************)
(* C5.  Unknown tool resilience: execute_tool called with a name outside   *)
(* the catalog returns an envelope with success = false and an error text, *)
(* sends no request and does not raise; a chat call never fails at the     *)
(* dispatch of such a call, a turn that requests only such calls gets to   *)
(* the second model call with one tool message per call, and a turn that   *)
(* returns has the sentinel envelope as the tool message of every such     *)
(* call and the second model's text as its answer.                         *)
(***************************************************************************)
OutsideCatalog(tool_call) == tool_call.name \notin CatalogNames

C6_ExecuteToolNeverRaises ==
    \A k \in 1..Len(executed) : ~executed[k].raised

(***************************************************************************)
(* C7.  Only failures of the model calls themselves propagate out of chat: *)
(* whenever a chat call ends with an exception, the failing step was the   *)
(* first or the second model call.                                         *)
(***************************************************************************)
C7_OnlyModelCallsFail ==
    pc = "failed" => outcome.step \in {"llm1", "llm2"}

(***************************************************************************)
(* C8.  No-tool path: when the first response requests no tool, the turn   *)
(* makes exactly one model call and no execute_tool call, appends exactly  *)
(* two messages (the augmented user message, then an assistant message     *)
(* holding the model's text) and returns that text.                        *)
(***************************************************************************)
C8_NoToolPath ==
    (pc = "returned" /\ ~InvolvedTools) =>
       /\ Len(llm_calls) = 1
       /\ llm_calls[1].tools
       /\ llm_calls[1].n_messages = start_len + 1
       /\ executed = <<>>
       /\ Len(messages) = start_len + 2
       /\ messages[start_len + 1].role = "user"
       /\ messages[start_len + 1].content.kind = "augmented"
       /\ messages[start_len + 1].content.request = user_input
       /\ messages[start_len + 2] = AssistantMessage(llm_calls[1].content)
       /\ outcome = ReturnOf(llm_calls[1].content)

\* a second turn that returned on the no-tool path
C8_Witness ==
    /\ pc = "returned"
    /\ ~InvolvedTools
    /\ turns = 2
    /\ start_len > 1
    /\ outcome.value = "done"

(***************************************************************************)
(* C9.  Tool path: when the first response requests n >= 1 tools and no    *)
(* step fails, the turn makes exactly two model calls (the first with the  *)
(* tool catalog, the second with the extended history and without it),     *)
(* appends exactly n + 3 messages in the order user, assistant with tool   *)
(* calls, n tool messages, final assistant, and returns the second call's  *)
(* text; on a fresh session with one requested tool the history ends with  *)
(* exactly 5 messages.                                                     *)
(***************************************************************************)
RolesOf(h) == [k \in 1..Len(h) |-> h[k].role]

C9_ToolPath ==
    (pc = "returned" /\ InvolvedTools) =>
       LET n == Len(tool_calls)
       IN  /\ Len(llm_calls) = 2
           /\ llm_calls[1].tools
           /\ llm_calls[1].n_messages = start_len + 1
           /\ ~llm_calls[2].tools
           /\ llm_calls[2].n_messages = start_len + 2 + n
           /\ Len(messages) = start_len + n + 3
           /\ messages[start_len + 1].role = "user"
           /\ BearsToolCalls(messages[start_len + 2])
           /\ \A k \in 1..n : messages[start_len + 2 + k].role = "tool"
           /\ messages[start_len + n + 3] = AssistantMessage(llm_calls[2].content)
           /\ outcome = ReturnOf(llm_calls[2].content)
           /\ (start_len = 1 /\ n = 1) =>
                 RolesOf(messages) = << "system", "user", "assistant", "tool", "assistant" >>

\* the first turn of a session, one tool requested, answered
C9_Witness ==
    /\ pc = "returned"
    /\ Len(tool_calls) = 1
    /\ start_len = 1
    /\ Len(messages) = 5

(***************************************************************************)
(* C10.  Reset clears but preserves identity: from any state reached by    *)
(* N >= 0 turns, reset leaves exactly one message, the system preamble;    *)
(* a reset after a reset changes nothing; after reset the session is in    *)
(* the state __init__ gave it, so a chat call behaves as on a fresh        *)
(* session, and the bound API client and retriever are the same as before. *)
(***************************************************************************)
\* the fields of the session and the locals of chat, as a chat call finds them
SessionState == << messages, api_client, retriever, pc, locals >>

FreshSession ==
    /\ messages = << SystemMessage >>
    /\ pc = "ready"
    /\ user_input = ""
    /\ tool_calls = <<>>
    /\ idx = 0
    /\ tool_results = <<>>

C10_ResetClearsKeepsIdentity ==
    [][ Reset =>
          /\ messages' = << SystemMessage >>
          /\ Len(messages') = 1
          /\ FreshSession'
          /\ api_client' = api_client
          /\ retriever' = retriever
          /\ (pc = "ready" => SessionState' = SessionState) ]_vars

\* reset has run after two turns, the second of them through the tool path
C10_Witness ==
    /\ pc = "ready"
    /\ turns = 2
    /\ next_id > 1
    /\ messages = << SystemMessage >>

(***************************************************************************)
(* C11: a failing step leaves the history as it was before that step.      *)
(***************************************************************************)
\* the history h is the prior history, then the turn's user message, then
\* the messages of rest
PriorUserThen(h, rest) ==
    \E rag_context \in RagContexts :
       h = prior \o << UserMessage(rag_context, user_input) >> \o rest

\* C11: when a chat call has failed, the history is exactly what it was before
\* the failing step: unchanged when retrieval failed; the prior history plus
\* the user message when the first model call failed; the prior history plus
\* the user message and the tool-call message when a pass of the loop
\* failed; the prior history plus the user message, the tool-call message
\* and one tool message per call when the second model call failed.
C11_NoRollbackOnFailure ==
    pc = "failed" =>
        /\ outcome.step = "retrieve" => messages = prior
        /\ outcome.step = "llm1" => PriorUserThen(messages, << >>)
        /\ outcome.step \in {"json.loads", "execute_tool"} =>
              PriorUserThen(messages, << ToolCallMessage(tool_calls) >>)
        /\ outcome.step = "llm2" =>
              /\ PriorUserThen(messages,
                                << ToolCallMessage(tool_calls) >> \o tool_results)
              /\ Len(tool_results) = Len(tool_calls)
              /\ \A k \in 1..Len(tool_calls) :
                    /\ tool_results[k].role = "tool"
                    /\ tool_results[k].tool_call_id = tool_calls[k].id

\* the second model call failed after two tool calls were answered
C11_Witness ==
    /\ pc = "failed"
    /\ outcome.step = "llm2"
    /\ Len(tool_results) = 2
    /\ Len(messages) = Len(prior) + 4

(***************************************************************************)
(* The web application (web_app.py).  Its endpoints are plain functions,   *)
(* which the server runs on the threads of a pool: a request is served by  *)
(* one thread from beginning to end, and the threads run side by side.     *)
(* Every statement that waits for the network is a step of its own.        *)
(***************************************************************************)
\* what a request body can carry as session_id: the identifiers uuid4 hands
\* out
SessionIds == {"s1", "s2"}

\* the tokens the Hive server issues
WebTokens == {"tokA", "tokB"}

\* what a request body can carry as message, as a sequence of characters
WebInputs == { << " " >>, << "h", "i" >> }

\* what the request of HiveApiClient.login ends in: an error status
\* (raise_for_status), httpx.RequestError, a success response without a
\* token, or a success response with one
LoginOutcomes ==
    { [kind |-> "status", status_code |-> 401],
      [kind |-> "status", status_code |-> 403],
      [kind |-> "status", status_code |-> 500],
      [kind |-> "transport_error", status_code |-> 0],
      [kind |-> "no_token", status_code |-> 200],
      [kind |-> "token", status_code |-> 200] }

\* only 401 taken as bad credentials: 403 passes through as it is
LoginStatusOnly401(remote) ==
    IF remote.kind = "status"
    THEN remote.status_code
    ELSE IF remote.kind = "transport_error" THEN 503 ELSE 500

\* the except clauses of login: the status of the HTTPException raised
LoginStatus(remote) ==
    IF remote.kind = "status"
    THEN IF remote.status_code \in {401, 403} THEN 401 ELSE remote.status_code
    ELSE IF remote.kind = "transport_error" THEN 503 ELSE 500

\* HiveAgent(token=token) as the registry holds it: key says that
\* web_app.sessions still has it (logout pops it while threads may hold
\* it), closes counts the calls of HiveAgent.close, late says that a chat
\* call used the API client or the retriever after close
NewAgent(token) ==
    [ messages |-> << SystemMessage >>, token |-> token, key |-> TRUE,
      closes |-> 0, late |-> FALSE ]

\* the lookup over every agent login created, popped or not
GetAgentPopped(session_id) ==
    IF session_id \in DOMAIN sessions THEN session_id ELSE NoSession

\* sessions.get(session_id): the agent, named by its identifier, or None
GetAgent(session_id) ==
    IF session_id \in DOMAIN sessions /\ sessions[session_id].key
    THEN session_id
    ELSE NoSession

\* HiveAgent.close has run on the agent
IsClosed(sid) == sessions[sid].closes > 0

\* the texts the model answers with while serving the web application
WebModelTexts == {"answer"}

\* the calls the model asks for while serving the web application
WebCallRequests ==
    { [name |-> "list_databases", arguments |-> JsonObject({})] }

\* what the Hive server does with a request of the web application
WebRemoteOutcomes == { HttpResponse(200, TRUE), TransportError }

\* api_client._auth_headers: the token every request of an agent carries
AuthHeaders(agent) == [agent_token |-> agent.token]

\* the requests a tool execution sent to the Hive server
SentBy(sid, done) ==
    IF done.requested THEN { [sid |-> sid, headers |-> AuthHeaders(sessions[sid])] }
    ELSE {}

\* uuid4: an identifier no session has yet
FreshSessionId == CHOOSE s \in SessionIds : s \notin DOMAIN sessions

\* HiveApiClient.login: the token the server issues, one it has not issued yet
FreshToken == CHOOSE k \in WebTokens : \A s \in DOMAIN sessions : sessions[s].token # k

\* the thread t answers the request of an endpoint with a status and is free
\* again
Respond(t, endpoint, status) ==
    /\ threads' = [threads EXCEPT ![t] = IdleThread]
    /\ response' = [endpoint |-> endpoint, status |-> status]

AppendTo(sid, ms) ==
    sessions' = [sessions EXCEPT ![sid].messages = @ \o ms]

\* a thread takes a request off the socket: the first thread that is free
Idle(t) ==
    /\ threads[t].pc = "idle"
    /\ \A u \in Threads : u < t => threads[u].pc # "idle"

\* a request other than a login that creates a session
Accept(t) ==
    /\ Idle(t)
    /\ accepted < MaxRequests
    /\ accepted' = accepted + 1

\* lines 109-144: POST /api/login; constructed says whether HiveAgent(token)
\* returns (it connects to the vector store and may build the index)
LoginOn(t, remote, constructed) ==
    /\ IF remote.kind # "token"
       THEN /\ Accept(t)
            /\ Respond(t, "login", LoginStatus(remote))
            /\ UNCHANGED sessions
       ELSE IF ~constructed
            THEN /\ Accept(t)
                 /\ Respond(t, "login", 500)
                 /\ UNCHANGED sessions
            ELSE LET session_id == FreshSessionId
                     token      == FreshToken
                 IN
                   /\ Idle(t)
                   /\ DOMAIN sessions # SessionIds
                   /\ sessions' = [s \in DOMAIN sessions \cup {session_id} |->
                                      IF s = session_id THEN NewAgent(token)
                                      ELSE sessions[s]]
                   /\ Respond(t, "login", 200)
                   /\ UNCHANGED accepted
    /\ UNCHANGED << api_log, next_id, agent_vars, rag_vars, cli, builders >>

Login(t) ==
    \E remote \in LoginOutcomes, constructed \in BOOLEAN : LoginOn(t, remote, constructed)

\* web_app.py 164: POST /api/chat, the lookup
WebChatStartOn(t, session_id, message) ==
    /\ Accept(t)
    /\ IF GetAgent(session_id) = NoSession
       THEN Respond(t, "chat", 401)
       ELSE /\ threads' = [threads EXCEPT ![t] =
                   [ pc |-> "retrieve", sid |-> session_id, user_input |-> message,
                     tool_calls |-> << >>, idx |-> 0, tool_results |-> << >> ]]
            /\ UNCHANGED response
    /\ UNCHANGED << sessions, api_log, next_id, agent_vars, rag_vars, cli, builders >>

WebChatStart(t) ==
    \E session_id \in SessionIds, message \in WebInputs :
       WebChatStartOn(t, session_id, message)

\* agent.py 82-91 under web_app.py 165-169: the retrieval and the user message
WebChatRetrieve(t) ==
    /\ threads[t].pc = "retrieve"
    /\ \/ \* the embedder raises
          /\ Respond(t, "chat", 500)
          /\ UNCHANGED sessions
       \/ IF IsClosed(threads[t].sid)
          THEN \* vectorstore.query on the closed connection raises
               /\ sessions' = [sessions EXCEPT ![threads[t].sid].late = TRUE]
               /\ Respond(t, "chat", 500)
          ELSE \E rag_context \in RagContexts :
                 /\ AppendTo(threads[t].sid,
                             << UserMessage(rag_context, threads[t].user_input) >>)
                 /\ threads' = [threads EXCEPT ![t].pc = "llm1"]
                 /\ UNCHANGED response
    /\ UNCHANGED << api_log, accepted, next_id, agent_vars, rag_vars, cli, builders >>

\* agent.py 94-111 under web_app.py 165-169
WebChatFirstCall(t) ==
    /\ threads[t].pc = "llm1"
    /\ \/ /\ Respond(t, "chat", 500)
          /\ UNCHANGED << sessions, next_id >>
       \/ \E content \in WebModelTexts :
            /\ AppendTo(threads[t].sid, << AssistantMessage(content) >>)
            /\ Respond(t, "chat", 200)
            /\ UNCHANGED next_id
       \/ \E request \in WebCallRequests :
            /\ next_id <= MaxIds
            /\ next_id' = next_id + 1
            /\ AppendTo(threads[t].sid,
                        << ToolCallMessage(ToolCallsOf(<< request >>, next_id)) >>)
            /\ threads' = [threads EXCEPT ![t].pc = "loop",
                                          ![t].tool_calls = ToolCallsOf(<< request >>, next_id),
                                          ![t].idx = 1]
            /\ UNCHANGED response
    /\ UNCHANGED << api_log, accepted, agent_vars, rag_vars, cli, builders >>

\* agent.py 113-130 under web_app.py 165-169; a handler that reaches
\* self.client.request on a closed httpx client raises before anything is sent
WebChatToolCall(t) ==
    /\ threads[t].pc = "loop"
    /\ threads[t].idx <= Len(threads[t].tool_calls)
    /\ LET tool_call == threads[t].tool_calls[threads[t].idx]
           loaded    == JsonLoads(tool_call.arguments)
       IN  IF loaded.raised
           THEN /\ Respond(t, "chat", 500)
                /\ UNCHANGED << sessions, api_log >>
           ELSE \E remote \in WebRemoteOutcomes :
                  LET done == ExecuteTool(tool_call.name, loaded.value, remote)
                  IN  IF done.requested /\ IsClosed(threads[t].sid)
                      THEN /\ sessions' = [sessions EXCEPT ![threads[t].sid].late = TRUE]
                           /\ Respond(t, "chat", 500)
                           /\ UNCHANGED api_log
                      ELSE /\ api_log' = api_log \cup SentBy(threads[t].sid, done)
                           /\ UNCHANGED sessions
                           /\ IF done.raised
                              THEN Respond(t, "chat", 500)
                              ELSE /\ threads' = [threads EXCEPT
                                          ![t].tool_results =
                                              Append(@, ToolMessage(tool_call, done.result)),
                                          ![t].idx = @ + 1]
                                   /\ UNCHANGED response
    /\ UNCHANGED << accepted, next_id, agent_vars, rag_vars, cli, builders >>

\* agent.py 133
WebChatExtend(t) ==
    /\ threads[t].pc = "loop"
    /\ threads[t].idx > Len(threads[t].tool_calls)
    /\ AppendTo(threads[t].sid, threads[t].tool_results)
    /\ threads' = [threads EXCEPT ![t].pc = "llm2"]
    /\ UNCHANGED response
    /\ UNCHANGED << api_log, accepted, next_id, agent_vars, rag_vars, cli, builders >>

\* agent.py 137-145 and web_app.py 167-169
WebChatSecondCall(t) ==
    /\ threads[t].pc = "llm2"
    /\ \/ /\ Respond(t, "chat", 500)
          /\ UNCHANGED sessions
       \/ \E final_message \in WebModelTexts :
            /\ AppendTo(threads[t].sid, << AssistantMessage(final_message) >>)
            /\ Respond(t, "chat", 200)
    /\ UNCHANGED << api_log, accepted, next_id, agent_vars, rag_vars, cli, builders >>

\* every agent of the registry reset, not the one looked up
WebResetEverySession(t, session_id) ==
    /\ Accept(t)
    /\ IF GetAgent(session_id) = NoSession
       THEN /\ Respond(t, "reset", 401)
            /\ UNCHANGED sessions
       ELSE /\ sessions' = [s \in DOMAIN sessions |->
                               [sessions[s] EXCEPT !.messages = << SystemMessage >>]]
            /\ Respond(t, "reset", 200)
    /\ UNCHANGED << api_log, next_id, agent_vars, rag_vars, cli, builders >>

\* lines 172-186 and agent.py 147-153: POST /api/reset
WebResetOn(t, session_id) ==
    /\ Accept(t)
    /\ IF GetAgent(session_id) = NoSession
       THEN /\ Respond(t, "reset", 401)
            /\ UNCHANGED sessions
       ELSE /\ sessions' = [sessions EXCEPT ![session_id].messages = << SystemMessage >>]
            /\ Respond(t, "reset", 200)
    /\ UNCHANGED << api_log, next_id, agent_vars, rag_vars, cli, builders >>

WebReset(t) == \E session_id \in SessionIds : WebResetOn(t, session_id)

\* sessions.get in place of sessions.pop: the agent stays in the registry
WebLogoutKeepsKey(t, session_id) ==
    /\ Accept(t)
    /\ IF GetAgent(session_id) = NoSession
       THEN Respond(t, "logout", 200)
       ELSE /\ threads' = [threads EXCEPT ![t] =
                   [IdleThread EXCEPT !.pc = "close", !.sid = session_id]]
            /\ UNCHANGED response
    /\ UNCHANGED << sessions, api_log, next_id, agent_vars, rag_vars, cli, builders >>

\* lines 203-204: POST /api/logout, sessions.pop(session_id, None)
WebLogoutOn(t, session_id) ==
    /\ Accept(t)
    /\ IF GetAgent(session_id) = NoSession
       THEN /\ Respond(t, "logout", 200)
            /\ UNCHANGED sessions
       ELSE /\ sessions' = [sessions EXCEPT ![session_id].key = FALSE]
            /\ threads' = [threads EXCEPT ![t] =
                   [IdleThread EXCEPT !.pc = "close", !.sid = session_id]]
            /\ UNCHANGED response
    /\ UNCHANGED << api_log, next_id, agent_vars, rag_vars, cli, builders >>

WebLogout(t) == \E session_id \in SessionIds : WebLogoutOn(t, session_id)

\* lines 205-206 and agent.py 155-162: agent.close(), then the answer
WebLogoutClose(t) ==
    /\ threads[t].pc = "close"
    /\ sessions' = [sessions EXCEPT ![threads[t].sid].closes = @ + 1]
    /\ Respond(t, "logout", 200)
    /\ UNCHANGED << api_log, accepted, next_id, agent_vars, rag_vars, cli, builders >>

\* the steps of the server, whichever thread takes them
ServeLogin           == \E t \in Threads : Login(t)
ServeChatStart       == \E t \in Threads : WebChatStart(t)
ServeChatRetrieve    == \E t \in Threads : WebChatRetrieve(t)
ServeChatFirstCall   == \E t \in Threads : WebChatFirstCall(t)
ServeChatToolCall    == \E t \in Threads : WebChatToolCall(t)
ServeChatExtend      == \E t \in Threads : WebChatExtend(t)
ServeChatSecondCall  == \E t \in Threads : WebChatSecondCall(t)
ServeReset           == \E t \in Threads : WebReset(t)
ServeLogout          == \E t \in Threads : WebLogout(t)
ServeLogoutClose     == \E t \in Threads : WebLogoutClose(t)

NextWeb ==
    \/ ServeLogin
    \/ ServeChatStart
    \/ ServeChatRetrieve
    \/ ServeChatFirstCall
    \/ ServeChatToolCall
    \/ ServeChatExtend
    \/ ServeChatSecondCall
    \/ ServeReset
    \/ ServeLogout
    \/ ServeLogoutClose

SpecWeb == Init /\ [][NextWeb]_vars

(***************************************************************************)
(* C12: one chat call at a time on a session.                              *)
(***************************************************************************)
\* the thread is inside HiveAgent.chat
InChat(t) == threads[t].pc \in {"retrieve", "llm1", "loop", "llm2"}

\* C12: no two /api/chat requests with the same session_id are inside
\* HiveAgent.chat at the same time: the chat call of one has returned or
\* raised before the other appends to the session's history.
C12_OneChatPerSession ==
    \A t, u \in Threads :
       (t # u /\ InChat(t) /\ InChat(u)) => threads[t].sid # threads[u].sid

(***************************************************************************)
(* C13: sessions do not touch one another.                                 *)
(***************************************************************************)
\* the thread t takes a step of a chat or a reset on the session s
OperatesOn(t, s) ==
    \/ \E message \in WebInputs : WebChatStartOn(t, s, message)
    \/ WebResetOn(t, s)
    \/ /\ threads[t].sid = s
       /\ \/ WebChatRetrieve(t)
          \/ WebChatFirstCall(t)
          \/ WebChatToolCall(t)
          \/ WebChatExtend(t)
          \/ WebChatSecondCall(t)

\* the step leaves every session but s as it is, and every request it sends
\* to the Hive server carries the token of s
Within(s) ==
    /\ \A o \in DOMAIN sessions : o # s => sessions'[o] = sessions[o]
    /\ \A call \in api_log' \ api_log :
          /\ call.sid = s
          /\ call.headers = [agent_token |-> sessions[s].token]

\* C13: every step of a chat or a reset on one session leaves the history of
\* every other session unchanged, whatever the other threads are doing, and
\* the requests it sends to the Hive server carry the token the session was
\* created with; no step changes the token of a session.
C13_SessionsIndependent ==
    [][ /\ (sessions' # sessions \/ api_log' # api_log) =>
              \A t \in Threads, s \in SessionIds : OperatesOn(t, s) => Within(s)
        /\ \A s \in DOMAIN sessions : sessions'[s].token = sessions[s].token ]_vars

\* chat calls of two sessions are in progress at once, one of them having
\* sent a request to the Hive server
C13_Witness ==
    /\ InChat(1) /\ InChat(2)
    /\ threads[1].sid # threads[2].sid
    /\ \E call \in api_log : call.sid = threads[1].sid
    /\ Len(sessions[threads[2].sid].messages) > 1

(***************************************************************************)
(* C14: blank input never reaches HiveAgent.chat.                          *)
(***************************************************************************)
\* str.isspace of one character
Whitespace == {" ", "\t", "\n", "\r"}

\* str.strip of the text is empty
RECURSIVE Blank(_)
Blank(text) ==
    \/ text = << >>
    \/ Head(text) \in Whitespace /\ Blank(Tail(text))

\* C14: no chat call is running on an empty or blank user text, and no user
\* message of a session's history was made from one.
C14_NoBlankChat ==
    /\ \A t \in Threads : InChat(t) => ~Blank(threads[t].user_input)
    /\ \A s \in DOMAIN sessions :
          \A k \in 1..Len(sessions[s].messages) :
             sessions[s].messages[k].role = "user" =>
                ~Blank(sessions[s].messages[k].content.request)

(***************************************************************************)
(* The knowledge base (rag/document_loader.py).                            *)
(***************************************************************************)
NoMetadata == "missing"
EmptyMetadata == "{}"

\* one document of a knowledge file: its text as written, with or without
\* whitespace around it, and its metadata if it has any
Item(id, core, padded, metadata) ==
    [id |-> id, text |-> [core |-> core, padded |-> padded], metadata |-> metadata]

\* what the knowledge directory holds at one time or another: nothing; two
\* documents; the first rewritten, the second removed, a third added
Corpora ==
    { << >>,
      << Item("d1", "ta", TRUE, NoMetadata), Item("d2", "tb", FALSE, "m1") >>,
      << Item("d1", "tc", FALSE, "m1"), Item("d3", "td", FALSE, NoMetadata) >> }

\* str.strip: the text without the whitespace around it
Strip(text) == text.core

\* lines 25-55: the documents of all files, text stripped, metadata defaulted
LoadKnowledgeBase(files) ==
    [k \in 1..Len(files) |->
        [ id       |-> files[k].id,
          text     |-> Strip(files[k].text),
          metadata |-> IF files[k].metadata = NoMetadata THEN EmptyMetadata
                       ELSE files[k].metadata ]]

(***************************************************************************)
(* The embedding backend and rag/embedder.py.                              *)
(***************************************************************************)
\* the vector the embedding model gives a text
Embedding(text) == [of |-> text]

\* the orders in which the backend can return n results
Orders(n) == {p \in [1..n -> 1..n] : \A i, j \in 1..n : i # j => p[i] # p[j]}

\* response.data of embeddings.create for a list of texts: one result per
\* text, each declaring the index of its input, in the order p
BatchResponse(texts, p) ==
    [k \in 1..Len(texts) |->
        [index |-> p[k] - 1, embedding |-> Embedding(texts[p[k]])]]

\* sorted(response.data, key=lambda x: x.index): a stable sort
InsertByIndex(d, sorted) ==
    SelectSeq(sorted, LAMBDA x : x.index <= d.index) \o << d >>
        \o SelectSeq(sorted, LAMBDA x : x.index > d.index)

RECURSIVE SortedByIndex(_)
SortedByIndex(data) ==
    IF data = << >> THEN << >>
    ELSE InsertByIndex(data[Len(data)], SortedByIndex(SubSeq(data, 1, Len(data) - 1)))

\* the results taken in the order the backend sent them
EmbedBatchUnsorted(data) == [k \in 1..Len(data) |-> data[k].embedding]

\* line 54: embed_batch's return value for the response data
EmbedBatch(data) == [k \in 1..Len(data) |-> SortedByIndex(data)[k].embedding]

\* line 39: embed's return value
Embed(data) == data[1].embedding

(***************************************************************************)
(* The collection table and rag/vectorstore.py.                            *)
(***************************************************************************)
\* the row an INSERT of upsert writes for a document and its vector
Row(doc, emb) == [document |-> doc.text, metadata |-> doc.metadata, embedding |-> emb]

\* INSERT ... ON CONFLICT (id) DO UPDATE: the row of id is the new one
UpsertRow(rows, id, row) ==
    [i \in DOMAIN rows \cup {id} |-> IF i = id THEN row ELSE rows[i]]

\* what a statement of the connection reads: the committed rows under the
\* rows its own open transaction has written
View(c, committed) ==
    [i \in DOMAIN committed \cup DOMAIN c.pending |->
        IF i \in DOMAIN c.pending THEN c.pending[i] ELSE committed[i]]

Visible == View(conn, store)

\* lines 140-152: SELECT COUNT(*)
Count(rows) == Cardinality(DOMAIN rows)

\* zip(docs, embeddings)
Zip(docs, embeddings) ==
    [k \in 1..(IF Len(docs) <= Len(embeddings) THEN Len(docs) ELSE Len(embeddings)) |->
        [doc |-> docs[k], emb |-> embeddings[k]]]

\* lines 94-110: the rows of the transaction after the first n executes
RECURSIVE Executed(_, _, _)
Executed(pending, pairs, n) ==
    IF n = 0 THEN pending
    ELSE UpsertRow(Executed(pending, pairs, n - 1),
                   pairs[n].doc.id, Row(pairs[n].doc, pairs[n].emb))

\* the questions put to the retriever
Queries == {"q1", "q2"}

\* embedding <=> query: the cosine distance of a stored vector from the
\* vector of a question
Distance(query_embedding, embedding) ==
    LET d == [ q1 |-> [ta |-> 3, tb |-> 1, tc |-> 2, td |-> 3],
               q2 |-> [ta |-> 1, tb |-> 2, tc |-> 2, td |-> 1] ]
    IN  d[query_embedding.of][embedding.of]

\* ORDER BY embedding <=> query: the orders the rows can come in
Ordered(rows, query_embedding) ==
    { p \in [1..Count(rows) -> DOMAIN rows] :
        /\ \A i, j \in 1..Count(rows) : i # j => p[i] # p[j]
        /\ \A i, j \in 1..Count(rows) :
              i < j => Distance(query_embedding, rows[p[i]].embedding)
                         <= Distance(query_embedding, rows[p[j]].embedding) }

\* the rows in the order found, LIMIT left out
QueryUnlimited(rows, query_embedding, n_results) ==
    { [k \in 1..Len(p) |-> rows[p[k]].document] : p \in Ordered(rows, query_embedding) }

\* lines 127-138: what query can return, the document column of the first
\* n_results rows
Query(rows, query_embedding, n_results) ==
    { [k \in 1..(IF Len(p) <= n_results THEN Len(p) ELSE n_results) |->
          rows[p[k]].document] : p \in Ordered(rows, query_embedding) }

\* "\n\n".join(docs), as the sequence of its pieces
RECURSIVE Join(_)
Join(docs) ==
    IF docs = << >> THEN << >>
    ELSE IF Len(docs) = 1 THEN << docs[1] >>
    ELSE << docs[1], "\n\n" >> \o Join(Tail(docs))

(***************************************************************************)
(* RAGRetriever (rag/retriever.py), one retriever at a time on one         *)
(* connection.  Every call that leaves the process is a step.              *)
(***************************************************************************)
\* an exception leaves the operation: out of the constructor no retriever
\* object is left and its connection goes with it; out of rebuild_index the
\* retriever lives on, with the connection c as the failure left it
Raise(c) ==
    IF rag.op = "init"
    THEN /\ rag' = NoRetriever
         /\ conn' = ClosedConn
    ELSE /\ rag' = [rag EXCEPT !.pc = "ready"]
         /\ conn' = c

\* the count test left out: the constructor builds the index every time
RagConstructAlwaysBuilds ==
    /\ rag.pc = "absent"
    /\ rag_log.started < MaxOps
    /\ \/ /\ rag_log' = [NewLog("init", rag_log.started + 1, store)
                             EXCEPT !.ended = "raised"]
          /\ UNCHANGED << rag, conn >>
       \/ /\ conn' = [state |-> "open", pending |-> EmptyRows]
          /\ rag' = [NoRetriever EXCEPT !.op = "init", !.pc = "load"]
          /\ rag_log' = [NewLog("init", rag_log.started + 1, store)
                             EXCEPT !.count_seen = Count(store)]
    /\ UNCHANGED << corpus, store, upserted, agent_vars, next_id, web_vars, cli, builders >>

\* lines 26-35 and vectorstore.py 33-56: the constructor up to the count test
RagConstruct ==
    /\ rag.pc = "absent"
    /\ rag_log.started < MaxOps
    /\ \/ \* psycopg2.connect or _init_table raises
          /\ rag_log' = [NewLog("init", rag_log.started + 1, store)
                             EXCEPT !.ended = "raised"]
          /\ UNCHANGED << rag, conn >>
       \/ \* a new connection reads the committed rows
          /\ conn' = [state |-> "open", pending |-> EmptyRows]
          /\ rag' = [NoRetriever EXCEPT !.op = "init",
                                        !.pc = IF Count(store) = 0 THEN "load" ELSE "ready"]
          /\ rag_log' = [NewLog("init", rag_log.started + 1, store)
                             EXCEPT !.count_seen = Count(store),
                                    !.ended = IF Count(store) = 0 THEN "running"
                                              ELSE "returned"]
    /\ UNCHANGED << corpus, store, upserted, agent_vars, next_id, web_vars, cli, builders >>

\* lines 44 and 58: load_knowledge_base
RagLoad ==
    /\ rag.pc = "load"
    /\ \/ \* a file cannot be read, or a document lacks id or text
          /\ Raise(conn)
          /\ rag_log' = [rag_log EXCEPT !.ended = "raised"]
       \/ /\ rag' = [rag EXCEPT !.docs = LoadKnowledgeBase(corpus), !.pc = "embed"]
          /\ rag_log' = [rag_log EXCEPT !.loads = @ + 1, !.loaded = corpus]
          /\ UNCHANGED conn
    /\ UNCHANGED << corpus, store, upserted, agent_vars, next_id, web_vars, cli, builders >>

\* lines 46 and 59: embed_batch over the texts of the documents
RagEmbedBatch ==
    /\ rag.pc = "embed"
    /\ \/ \* the backend call raises
          /\ Raise(conn)
          /\ rag_log' = [rag_log EXCEPT !.batches = @ + 1, !.ended = "raised"]
       \/ \E p \in Orders(Len(rag.docs)) :
            LET texts == [k \in 1..Len(rag.docs) |-> rag.docs[k].text]
                data  == BatchResponse(texts, p)
            IN  /\ rag' = [rag EXCEPT !.embeddings = EmbedBatch(data), !.pc = "upsert"]
                /\ rag_log' = [rag_log EXCEPT !.batches = @ + 1, !.response = data]
                /\ UNCHANGED conn
    /\ UNCHANGED << corpus, store, upserted, agent_vars, next_id, web_vars, cli, builders >>

\* what ends an execute of upsert early: the driver refuses a parameter
\* before anything is sent, or the server refuses the statement
ExecuteFailures == {"client", "server"}

\* lines 48 and 60 with vectorstore.py 83-112: upsert
RagUpsert ==
    /\ rag.pc = "upsert"
    /\ LET pairs == Zip(rag.docs, rag.embeddings)
           log   == [rag_log EXCEPT !.upserts = @ + 1, !.before_upsert = Visible]
       IN  IF conn.state = "aborted"
           THEN IF pairs # << >>
                THEN \* the first execute is refused: the transaction has failed
                     /\ Raise(conn)
                     /\ rag_log' = [log EXCEPT !.upsert = "failed", !.ended = "raised"]
                     /\ UNCHANGED << store, upserted >>
                ELSE \* nothing to execute; commit ends the failed transaction
                     /\ conn' = [state |-> "open", pending |-> EmptyRows]
                     /\ rag' = [rag EXCEPT !.pc = "ready"]
                     /\ rag_log' = [log EXCEPT !.upsert = "done", !.ended = "returned"]
                     /\ UNCHANGED << store, upserted >>
           ELSE \/ \E k \in 1..Len(pairs), failure \in ExecuteFailures :
                     \* the k-th execute raises; no rollback follows
                     /\ Raise(IF failure = "client"
                              THEN [conn EXCEPT !.pending = Executed(@, pairs, k - 1)]
                              ELSE [state |-> "aborted", pending |-> EmptyRows])
                     /\ rag_log' = [log EXCEPT !.upsert = "failed", !.ended = "raised"]
                     /\ UNCHANGED << store, upserted >>
                \/ \* every execute went through; line 112 commits
                   /\ store' = View([conn EXCEPT !.pending =
                                        Executed(@, pairs, Len(pairs))], store)
                   /\ upserted' = Executed(upserted, pairs, Len(pairs))
                   /\ conn' = [state |-> "open", pending |-> EmptyRows]
                   /\ rag' = [rag EXCEPT !.pc = "ready"]
                   /\ rag_log' = [log EXCEPT !.upsert = "done", !.ended = "returned"]
    /\ UNCHANGED << corpus, agent_vars, next_id, web_vars, cli, builders >>

\* lines 63-81 with embedder.py 28-39 and vectorstore.py 114-138: retrieve
RagRetrieve ==
    /\ rag.pc = "ready"
    /\ rag_log.started < MaxOps
    /\ \E query \in Queries :
         LET log == [NewLog("retrieve", rag_log.started + 1, Visible)
                        EXCEPT !.embeds = 1]
             query_embedding ==
                 Embed(<< [index |-> 0, embedding |-> Embedding(query)] >>)
         IN  \/ \* the embedding call raises
                rag_log' = [log EXCEPT !.ended = "raised"]
             \/ IF conn.state = "aborted"
                THEN \* the SELECT is refused: the transaction has failed
                     rag_log' = [log EXCEPT !.queries = << RAG_N_RESULTS >>,
                                            !.ended = "raised"]
                ELSE \E docs \in Query(Visible, query_embedding, RAG_N_RESULTS) :
                       rag_log' = [log EXCEPT !.queries = << RAG_N_RESULTS >>,
                                              !.query = query_embedding,
                                              !.result = Join(docs),
                                              !.ended = "returned"]
    /\ UNCHANGED << corpus, store, conn, rag, upserted, agent_vars, next_id, web_vars, cli, builders >>

\* the index rebuilt only when the collection is empty, as the constructor
\* does
RagRebuildIfEmpty ==
    /\ rag.pc = "ready"
    /\ rag_log.started < MaxOps
    /\ IF conn.state # "aborted" /\ Count(Visible) = 0
       THEN rag' = [rag EXCEPT !.op = "rebuild", !.pc = "load",
                               !.docs = << >>, !.embeddings = << >>]
       ELSE rag' = [rag EXCEPT !.op = "rebuild"]
    /\ rag_log' = [NewLog("rebuild", rag_log.started + 1, Visible)
                      EXCEPT !.ended = IF conn.state # "aborted" /\ Count(Visible) = 0
                                       THEN "running" ELSE "returned"]
    /\ UNCHANGED << corpus, store, conn, upserted, agent_vars, next_id, web_vars, cli, builders >>

\* lines 51-61: rebuild_index is called
RagRebuild ==
    /\ rag.pc = "ready"
    /\ rag_log.started < MaxOps
    /\ rag' = [rag EXCEPT !.op = "rebuild", !.pc = "load",
                          !.docs = << >>, !.embeddings = << >>]
    /\ rag_log' = NewLog("rebuild", rag_log.started + 1, Visible)
    /\ UNCHANGED << corpus, store, conn, upserted, agent_vars, next_id, web_vars, cli, builders >>

\* lines 83-88: close; the server drops what the connection left open
RagClose ==
    /\ rag.pc = "ready"
    /\ rag' = NoRetriever
    /\ conn' = ClosedConn
    /\ UNCHANGED << corpus, store, rag_log, upserted, agent_vars, next_id, web_vars, cli, builders >>

\* the knowledge files are edited out of band
EditCorpus ==
    /\ \E files \in Corpora \ {corpus} : corpus' = files
    /\ UNCHANGED << store, conn, rag, rag_log, upserted, agent_vars, next_id, web_vars, cli, builders >>

NextRag ==
    \/ RagConstruct
    \/ RagLoad
    \/ RagEmbedBatch
    \/ RagUpsert
    \/ RagRetrieve
    \/ RagRebuild
    \/ RagClose
    \/ EditCorpus

SpecRag == Init /\ [][NextRag]_vars

(***************************************************************************)
(* C15: the index is built by the constructor only for an empty            *)
(* collection.                                                             *)
(***************************************************************************)
\* the constructor has returned and nothing has been called since
Constructed == rag.pc = "ready" /\ rag_log.op = "init"

\* C15: a retriever constructed against a collection of count 0 has made one
\* corpus load, one batch embedding call and one upsert, and count equals
\* the number of documents it loaded; one constructed against a collection
\* of count > 0 has made no load, no embedding call and no write.
C15_LazyIndexBuild ==
    Constructed =>
       IF rag_log.count_seen = 0
       THEN /\ rag_log.loads = 1 /\ rag_log.batches = 1 /\ rag_log.upserts = 1
            /\ rag_log.embeds = 0
            /\ Count(Visible) = Len(rag_log.loaded)
       ELSE /\ rag_log.loads = 0 /\ rag_log.batches = 0 /\ rag_log.upserts = 0
            /\ rag_log.embeds = 0
            /\ store = rag_log.before
            /\ conn.pending = EmptyRows

\* a constructor found the collection empty and left two records in it
C15_Witness ==
    /\ Constructed
    /\ rag_log.count_seen = 0
    /\ Count(Visible) = 2

(***************************************************************************)
(* C16: what the collection holds after upsert calls.                      *)
(***************************************************************************)
\* C16: the collection holds exactly one record for each id that an upsert
\* call which returned has written, with the text, metadata and embedding of
\* the last such write, and no other record.
C16_UpsertIdempotent == store = upserted

(***************************************************************************)
(* C17: an upsert call writes all of its batch or nothing.                 *)
(***************************************************************************)
\* the batch of the last upsert call
Batch == Zip(rag.docs, rag.embeddings)

\* C17: after an upsert call that raised, the records visible in the
\* collection and their count are those from before the call; after one
\* that returned, every record of its batch is visible.
C17_UpsertAllOrNothing ==
    /\ rag_log.upsert = "failed" =>
          /\ Visible = rag_log.before_upsert
          /\ Count(Visible) = Count(rag_log.before_upsert)
    /\ (rag_log.upsert = "done" /\ rag.pc = "ready") =>
          \A k \in 1..Len(Batch) :
             /\ Batch[k].doc.id \in DOMAIN Visible
             /\ Visible[Batch[k].doc.id] = Row(Batch[k].doc, Batch[k].emb)

(***************************************************************************)
(* C18: embed_batch returns the vectors in the order of the texts.         *)
(***************************************************************************)
\* embed_batch has returned and upsert has not begun
Embedded == rag.pc = "upsert"

\* C18: whatever the order of the backend's results, embed_batch returns as
\* many vectors as there were texts, the i-th being the result the backend
\* declared for input index i (counted from 0 by the backend).
C18_BatchOrderPreserved ==
    Embedded =>
       /\ Len(rag.embeddings) = Len(rag.docs)
       /\ \A i \in 1..Len(rag.docs) :
             \A k \in 1..Len(rag_log.response) :
                rag_log.response[k].index = i - 1 =>
                   rag.embeddings[i] = rag_log.response[k].embedding

\* the backend answered a batch of two texts with the second result first
C18_Witness ==
    /\ Embedded
    /\ Len(rag.docs) = 2
    /\ rag_log.response[1].index = 1

(***************************************************************************)
(* C19: what retrieve calls and returns.                                   *)
(***************************************************************************)
\* the retrieve call has returned and nothing has been called since
Retrieved == rag.pc = "ready" /\ rag_log.op = "retrieve" /\ rag_log.ended = "returned"

\* the ids hits are distinct rows, nearest first, and no row left out is
\* nearer to the query than one of them
Nearest(hits, rows, query_embedding) ==
    /\ \A i, j \in 1..Len(hits) : i # j => hits[i] # hits[j]
    /\ \A i, j \in 1..Len(hits) :
          i < j => Distance(query_embedding, rows[hits[i]].embedding)
                     <= Distance(query_embedding, rows[hits[j]].embedding)
    /\ \A i \in 1..Len(hits) :
          \A o \in DOMAIN rows \ {hits[j] : j \in 1..Len(hits)} :
             Distance(query_embedding, rows[hits[i]].embedding)
                <= Distance(query_embedding, rows[o].embedding)

\* C19: a retrieve call that returned has made exactly one single-text
\* embedding call, no batch call and one store query for RAG_N_RESULTS; its
\* result is the texts of the min(RAG_N_RESULTS, count) stored records
\* nearest to the query, nearest first, with a blank line between them,
\* the empty string when nothing is stored; the store is as it was.
C19_Retrieve ==
    Retrieved =>
       /\ rag_log.embeds = 1 /\ rag_log.batches = 0
       /\ rag_log.queries = << RAG_N_RESULTS >>
       /\ LET n == IF Count(Visible) <= RAG_N_RESULTS THEN Count(Visible)
                   ELSE RAG_N_RESULTS
          IN  \E hits \in [1..n -> DOMAIN Visible] :
                 /\ Nearest(hits, Visible, rag_log.query)
                 /\ rag_log.result = Join([k \in 1..n |-> Visible[hits[k]].document])
       /\ Count(Visible) = 0 => rag_log.result = << >>
       /\ rag_log.loads = 0 /\ rag_log.upserts = 0
       /\ Visible = rag_log.before

\* three records are stored and a retrieve call returned the two nearest
C19_Witness ==
    /\ Retrieved
    /\ Count(Visible) = 3
    /\ Len(rag_log.result) = 3

(***************************************************************************)
(* C20: rebuild_index loads, embeds and upserts whatever is stored.        *)
(***************************************************************************)
\* the rebuild_index call has returned and nothing has been called since
Rebuilt == rag.pc = "ready" /\ rag_log.op = "rebuild" /\ rag_log.ended = "returned"

\* C20: a rebuild_index call that returned has made one corpus load, one
\* batch embedding call and one upsert, whatever the count was, and every
\* document of the corpus it loaded is stored under its id with its stripped
\* text, its metadata and the embedding of that text; retrieve makes no
\* load, no batch embedding call and no upsert.
C20_RebuildUnconditional ==
    /\ Rebuilt =>
          /\ rag_log.loads = 1 /\ rag_log.batches = 1 /\ rag_log.upserts = 1
          /\ \A k \in 1..Len(rag_log.loaded) :
                LET item == rag_log.loaded[k]
                IN  /\ item.id \in DOMAIN store
                    /\ store[item.id] =
                          [ document  |-> item.text.core,
                            metadata  |-> IF item.metadata = NoMetadata
                                          THEN EmptyMetadata ELSE item.metadata,
                            embedding |-> Embedding(item.text.core) ]
    /\ rag_log.op = "retrieve" =>
          rag_log.loads = 0 /\ rag_log.batches = 0 /\ rag_log.upserts = 0

\* a rebuild on a collection that was not empty returned, having rewritten a
\* record and added one
C20_Witness ==
    /\ Rebuilt
    /\ Count(rag_log.before) = 2
    /\ Count(store) = 3
    /\ store["d1"] # rag_log.before["d1"]

(***************************************************************************)
(* C21: lookup or 401.                                                     *)
(***************************************************************************)
\* C21: a chat or reset request whose session_id is not a key of the
\* registry (never issued, or popped by a logout) is answered with 401, the
\* thread that served it never enters HiveAgent.chat or HiveAgent.reset, no
\* request goes to the Hive server, and the registry and every history stay
\* as they were.
C21_LookupOr401 ==
    [][ \A t \in Threads, s \in SessionIds :
          ( /\ ~(s \in DOMAIN sessions /\ sessions[s].key)
            /\ \/ WebResetOn(t, s)
               \/ \E message \in WebInputs : WebChatStartOn(t, s, message) )
          => /\ response'.status = 401
             /\ response'.endpoint \in {"chat", "reset"}
             /\ sessions' = sessions
             /\ api_log' = api_log
             /\ threads' = [threads EXCEPT ![t] = IdleThread] ]_vars

\* a chat request was answered with 401 while the registry held no agent:
\* one session had been logged out and closed, the other identifier was
\* never issued
C21_Witness ==
    /\ response = [endpoint |-> "chat", status |-> 401]
    /\ \A s \in SessionIds : ~(s \in DOMAIN sessions /\ sessions[s].key)
    /\ DOMAIN sessions # SessionIds
    /\ \E s \in DOMAIN sessions : sessions[s].closes = 1

(***************************************************************************)
(* C22: remove on logout.                                                  *)
(***************************************************************************)
\* C22: a logout for a session of the registry removes its key, for good,
\* and leaves every other session as it is; a logout for an absent
\* session_id is answered with ok and changes nothing; whatever the threads
\* do, HiveAgent.close runs exactly once on an agent that was removed (the
\* closes made and the closes still to be made by the threads that popped it
\* add up to one) and never on an agent of the registry; and a thread that
\* takes a chat request enters the agent only if the registry holds it.
C22_RemoveOnLogout ==
    [][ /\ \A t \in Threads, s \in SessionIds :
             WebLogoutOn(t, s) =>
                IF s \in DOMAIN sessions /\ sessions[s].key
                THEN /\ ~sessions'[s].key
                     /\ \A o \in DOMAIN sessions : o # s => sessions'[o] = sessions[o]
                ELSE /\ response' = [endpoint |-> "logout", status |-> 200]
                     /\ sessions' = sessions
                     /\ api_log' = api_log
                     /\ threads' = [threads EXCEPT ![t] = IdleThread]
        /\ \A s \in DOMAIN sessions' :
             /\ sessions'[s].closes
                  + Cardinality({ t \in Threads : /\ threads'[t].pc = "close"
                                                  /\ threads'[t].sid = s })
                  = IF sessions'[s].key THEN 0 ELSE 1
             /\ (s \in DOMAIN sessions /\ ~sessions[s].key) => ~sessions'[s].key
        /\ \A t \in Threads :
             (threads[t].pc = "idle" /\ threads'[t].pc \notin {"idle", "close"})
                => /\ threads'[t].sid \in DOMAIN sessions
                   /\ sessions[threads'[t].sid].key ]_vars

\* two requests were accepted: a thread has popped the agent of the only
\* session and has not closed it yet, and meanwhile a logout was answered
\* with ok without closing anything
C22_Witness ==
    /\ accepted = 2
    /\ \E t \in Threads, s \in SessionIds :
          /\ DOMAIN sessions = {s}
          /\ threads[t].pc = "close"
          /\ threads[t].sid = s
          /\ sessions[s].closes = 0
    /\ response = [endpoint |-> "logout", status |-> 200]

(***************************************************************************)
(* C23: create on login, only on success.                                  *)
(***************************************************************************)
\* the step adds exactly one session: a fresh agent under an identifier no
\* session had, bound to the token the Hive server has just issued, the
\* other sessions staying as they are, and answers with 200
AddsOneSession ==
    /\ \E new \in SessionIds \ DOMAIN sessions :
          /\ DOMAIN sessions' = DOMAIN sessions \cup {new}
          /\ sessions'[new] = NewAgent(FreshToken)
          /\ \A o \in DOMAIN sessions :
                /\ sessions'[o] = sessions[o]
                /\ sessions[o].token # sessions'[new].token
    /\ response' = [endpoint |-> "login", status |-> 200]

\* what the claim says of the three failures it names: the status of the
\* answer
NamedFailureStatus(remote) ==
    /\ (remote.kind = "status" /\ remote.status_code \in {401, 403})
          => response'.status = 401
    /\ remote.kind = "transport_error" => response'.status = 503
    /\ remote.kind = "no_token" => response'.status = 500

\* C23 as stated: a login adds exactly one new session, under a fresh
\* session_id bound to the token just issued, when authentication succeeds
\* (the Hive server answered with a token), and adds none otherwise; 401 and
\* 403 are answered with 401, a transport failure with 503, a success
\* response without a token with 500, the registry unchanged in each.
C23_CreateWheneverAuthenticated ==
    [][ \A t \in Threads, remote \in LoginOutcomes, constructed \in BOOLEAN :
          LoginOn(t, remote, constructed) =>
             IF remote.kind = "token"
             THEN AddsOneSession
             ELSE /\ sessions' = sessions
                  /\ NamedFailureStatus(remote) ]_vars

\* C23, amended: a login adds exactly one new session, under a fresh
\* session_id bound to the token just issued, when authentication succeeds
\* and the constructor of HiveAgent returns; it adds none otherwise.  401 and
\* 403 are answered with 401, a transport failure with 503, a success
\* response without a token with 500, and a constructor that raises after a
\* successful authentication with 500; the registry is unchanged in each.
C23_CreateOnLogin ==
    [][ \A t \in Threads, remote \in LoginOutcomes, constructed \in BOOLEAN :
          LoginOn(t, remote, constructed) =>
             IF remote.kind = "token" /\ constructed
             THEN AddsOneSession
             ELSE /\ sessions' = sessions
                  /\ response'.endpoint = "login"
                  /\ NamedFailureStatus(remote)
                  /\ remote.kind = "token" => response'.status = 500 ]_vars

\* two logins, and no other request, have created two sessions with
\* different tokens, each a fresh agent of the registry
C23_Witness ==
    /\ accepted = 0
    /\ response = [endpoint |-> "login", status |-> 200]
    /\ DOMAIN sessions = SessionIds
    /\ \A s, o \in SessionIds : s # o => sessions[s].token # sessions[o].token
    /\ \A s \in SessionIds : sessions[s] = NewAgent(sessions[s].token)

(***************************************************************************)
(* C24: the tool catalog and the dispatch table name the same closed set.  *)
(***************************************************************************)
\* every argument key the catalog declares
DeclaredKeys == UNION { TOOLS[name] : name \in DOMAIN TOOLS }

\* C24: the function names of TOOLS are the keys of execute_tool's dispatch
\* table, the five names delete_table, create_table, get_table_info,
\* list_tables and list_databases; and for each name the handler reads
\* exactly the keys the catalog declares as required: called with a dict of
\* declared keys it raises KeyError if and only if a required key is
\* missing.  So it is for the calls a chat call has executed: one that names
\* a catalog tool with a dict raised before sending a request exactly when a
\* required key was missing.
C24_CatalogMatchesDispatch ==
    /\ DOMAIN TOOLS = DOMAIN DispatchReads
    /\ DOMAIN TOOLS = { "delete_table", "create_table", "get_table_info",
                        "list_tables", "list_databases" }
    /\ \A name \in DOMAIN TOOLS, keys \in SUBSET DeclaredKeys, remote \in RemoteOutcomes :
          LET done == ExecuteTool(name, [type |-> "dict", keys |-> keys], remote)
          IN  (done.raised /\ done.exc = "KeyError") <=> ~(TOOLS[name] \subseteq keys)
    /\ \A k \in 1..Len(executed) :
          (executed[k].name \in DOMAIN TOOLS /\ executed[k].args.type = "dict") =>
             ( (executed[k].raised /\ ~executed[k].requested)
                  <=> ~(TOOLS[executed[k].name] \subseteq executed[k].args.keys) )

\* one chat call has executed delete_table with both required keys, which
\* sent its request and returned, and then delete_table without them, which
\* raised before sending anything
C24_Witness ==
    /\ Len(executed) = 2
    /\ executed[1].name = "delete_table"
    /\ executed[1].args.keys = TOOLS["delete_table"]
    /\ executed[1].requested /\ ~executed[1].raised
    /\ executed[2].name = "delete_table"
    /\ executed[2].args.keys = {}
    /\ executed[2].raised /\ ~executed[2].requested

(***************************************************************************)
(* The command line program (main.py): authenticate, then the loop of      *)
(* main.  A step ends where the program waits: for the login request, for  *)
(* the constructor of the agent, for a line of input, for agent.chat.      *)
(***************************************************************************)
\* what the user types at the prompt, as sequences of characters
CliInputs ==
    { << >>,
      << " ", " " >>,
      << "e", "x", "i", "t" >>,
      << " ", "Q", "U", "I", "T" >>,
      << "R", "e", "s", "e", "t", " " >>,
      << "h", "i" >>,
      << " ", "e", "x", "i", "t", "s" >> }

\* str.strip: the text from its first to its last character that is not
\* whitespace
StrStrip(text) ==
    LET kept == { k \in 1..Len(text) : text[k] \notin Whitespace }
    IN  IF kept = {} THEN << >>
        ELSE SubSeq(text, CHOOSE k \in kept : \A j \in kept : k <= j,
                          CHOOSE k \in kept : \A j \in kept : j <= k)

\* str.lower, character by character
Lower(text) ==
    LET lowered == [ E |-> "e", X |-> "x", I |-> "i", T |-> "t", Q |-> "q",
                     U |-> "u", R |-> "r", S |-> "s", H |-> "h" ]
    IN  [ k \in 1..Len(text) |->
            IF text[k] \in DOMAIN lowered THEN lowered[text[k]] ELSE text[k] ]

\* the finally clause of main: agent.close(), and the program is over
CliClose(c, how) ==
    [ c EXCEPT !.calls = Append(@, [op |-> "close", arg |-> << >>]),
               !.agent = "closed", !.pc = "exit", !.exit = how ]

\* the for loop of authenticate going on after its last attempt
CliLoginNoLimit ==
    /\ cli.pc = "login"
    /\ \/ cli' = [cli EXCEPT !.pc = "exit", !.exit = "interrupt"]
       \/ \E remote \in LoginOutcomes :
            IF remote.kind = "token"
            THEN \E token \in Tokens :
                   cli' = [cli EXCEPT !.tried = Append(@, remote.kind),
                                      !.token = token, !.pc = "construct"]
            ELSE cli' = [cli EXCEPT !.tried = Append(@, remote.kind),
                                    !.attempt = @ + 1]
    /\ UNCHANGED << next_id, agent_vars, web_vars, rag_vars, builders >>

\* main.py 49-85: one pass of the loop of authenticate, and what follows
\* the last one
CliLogin ==
    /\ cli.pc = "login"
    /\ \/ \* Prompt.ask raises (end of input, an interrupt): no login is made
          cli' = [cli EXCEPT !.pc = "exit", !.exit = "interrupt"]
       \/ \E remote \in LoginOutcomes :
            IF remote.kind = "token"
            THEN \E token \in Tokens :
                   cli' = [cli EXCEPT !.tried = Append(@, remote.kind),
                                      !.token = token, !.pc = "construct"]
            ELSE IF cli.attempt + 1 \in 1..MAX_LOGIN_ATTEMPTS
                 THEN cli' = [cli EXCEPT !.tried = Append(@, remote.kind),
                                         !.attempt = @ + 1]
                 ELSE cli' = [cli EXCEPT !.tried = Append(@, remote.kind),
                                         !.pc = "exit", !.exit = "SystemExit"]
    /\ UNCHANGED << next_id, agent_vars, web_vars, rag_vars, builders >>

\* main.py 100-103: HiveAgent(token=token), outside the try
CliConstruct ==
    /\ cli.pc = "construct"
    /\ \/ cli' = [cli EXCEPT !.agent = "open", !.pc = "prompt"]
       \/ cli' = [cli EXCEPT !.pc = "exit", !.exit = "error"]
    /\ UNCHANGED << next_id, agent_vars, web_vars, rag_vars, builders >>

\* main.py 107-124 and 133-135: a line is read and, unless it goes to chat,
\* dealt with
CliRead ==
    /\ cli.pc = "prompt"
    /\ cli.reads < MaxInputs
    /\ \/ \* Prompt.ask raises
          cli' = CliClose([cli EXCEPT !.reads = @ + 1], "error")
       \/ \E line \in CliInputs :
            LET text == StrStrip(line)
                read == [cli EXCEPT !.reads = @ + 1]
            IN  IF text = << >>
                THEN cli' = read
                ELSE IF Lower(text) \in { << "e", "x", "i", "t" >>,
                                          << "q", "u", "i", "t" >> }
                     THEN cli' = CliClose(read, "return")
                     ELSE IF Lower(text) = << "r", "e", "s", "e", "t" >>
                          THEN cli' = [read EXCEPT
                                         !.calls = Append(@, [op |-> "reset", arg |-> << >>])]
                          ELSE cli' = [read EXCEPT
                                         !.calls = Append(@, [op |-> "chat", arg |-> text]),
                                         !.pc = "chat"]
    /\ UNCHANGED << next_id, agent_vars, web_vars, rag_vars, builders >>

\* agent.chat raising without a finally clause around the loop
CliChatNoFinally ==
    /\ cli.pc = "chat"
    /\ \/ cli' = [cli EXCEPT !.pc = "prompt"]
       \/ cli' = [cli EXCEPT !.pc = "exit", !.exit = "error"]
    /\ UNCHANGED << next_id, agent_vars, web_vars, rag_vars, builders >>

\* main.py 128-135: agent.chat returns and the answer is printed, or it
\* raises and the finally clause runs
CliChat ==
    /\ cli.pc = "chat"
    /\ \/ cli' = [cli EXCEPT !.pc = "prompt"]
       \/ cli' = CliClose(cli, "error")
    /\ UNCHANGED << next_id, agent_vars, web_vars, rag_vars, builders >>

NextCli ==
    \/ CliLogin
    \/ CliConstruct
    \/ CliRead
    \/ CliChat

SpecCli == Init /\ [][NextCli]_vars

(***************************************************************************)
(* C25: the login of the command line program is bounded.                  *)
(***************************************************************************)
\* C25: authenticate makes at most MAX_LOGIN_ATTEMPTS logins; a login that
\* returned a token is the last one made, and its token is the one the
\* program holds; when MAX_LOGIN_ATTEMPTS logins have failed (bad
\* credentials, a server error, a transport failure, a response without a
\* token) the program has ended with SystemExit, and it ends so in no other
\* case; and a HiveAgent exists only if a login returned a token.
C25_BoundedLogin ==
    LET made   == Len(cli.tried)
        failed == \A k \in 1..made : cli.tried[k] # "token"
    IN
    /\ made <= MAX_LOGIN_ATTEMPTS
    /\ \A k \in 1..made : cli.tried[k] = "token" => k = made
    /\ cli.token # NoToken <=> ~failed
    /\ cli.token # NoToken => cli.token \in Tokens
    /\ (made = MAX_LOGIN_ATTEMPTS /\ failed) <=> cli.exit = "SystemExit"
    /\ cli.exit = "SystemExit" => cli.pc = "exit"
    /\ cli.pc = "login" => failed
    /\ cli.agent # "none" => cli.token # NoToken

\* two logins failed, the third returned a token, and the agent was created
C25_Witness ==
    /\ cli.tried = << "status", "transport_error", "token" >>
    /\ cli.token \in Tokens
    /\ cli.agent = "open"

(***************************************************************************)
(* C26: the session of the command line program.                           *)
(***************************************************************************)
\* C26: while the agent is in use close has not been called; once the
\* program has left the loop, by exit or quit or by an exception of chat or
\* of the prompt, close has been called exactly once and is the last call
\* made on the agent, so that no chat and no reset follows it; and no text
\* handed to chat is blank, padded, or one of the commands exit, quit and
\* reset in any case.
C26_CliLifecycle ==
    LET closes == { k \in 1..Len(cli.calls) : cli.calls[k].op = "close" }
    IN
    /\ cli.agent = "none" => cli.calls = << >>
    /\ cli.agent = "open" => (closes = {} /\ cli.pc \in {"prompt", "chat"})
    /\ cli.agent = "closed" => cli.pc = "exit"
    /\ (cli.pc = "exit" /\ cli.agent # "none") =>
          (cli.agent = "closed" /\ closes = {Len(cli.calls)})
    /\ cli.pc = "chat" => cli.calls[Len(cli.calls)].op = "chat"
    /\ \A k \in 1..Len(cli.calls) :
          cli.calls[k].op = "chat" =>
             /\ ~Blank(cli.calls[k].arg)
             /\ cli.calls[k].arg = StrStrip(cli.calls[k].arg)
             /\ Lower(cli.calls[k].arg) \notin { << "e", "x", "i", "t" >>,
                                                 << "q", "u", "i", "t" >>,
                                                 << "r", "e", "s", "e", "t" >> }

\* a chat call returned, a reset followed, a second chat call raised, and
\* the finally clause closed the agent
C26_Witness ==
    /\ cli.pc = "exit"
    /\ cli.exit = "error"
    /\ Len(cli.calls) = 4
    /\ cli.calls[1].op = "chat"
    /\ cli.calls[2].op = "reset"
    /\ cli.calls[3] = [op |-> "chat", arg |-> << "e", "x", "i", "t", "s" >>]
    /\ cli.calls[4].op = "close"

(***************************************************************************)
(* C27: the history is append-only, with a fixed head.                     *)
(***************************************************************************)
\* the sequence a is the beginning of the sequence b
IsPrefix(a, b) == Len(a) <= Len(b) /\ SubSeq(b, 1, Len(a)) = a

\* C27: after every step the first message of the history is the system
\* preamble and no other message is a system message; a step of a chat call
\* leaves the messages it found where and as they were and at most appends
\* to them, so that the history the call began with is a prefix of the
\* history during and after the call; and the only step that shortens the
\* history is reset.
C27_AppendOnly ==
    [][ /\ messages'[1] = SystemMessage
        /\ \A k \in 2..Len(messages') : messages'[k].role # "system"
        /\ IsPrefix(messages, messages') \/ Reset
        /\ pc' # "ready" => IsPrefix(prior', messages') ]_vars

\* a second chat call has returned: the history it began with, itself longer
\* than the preamble, is a proper prefix of the history it left
C27_Witness ==
    /\ pc = "returned"
    /\ turns = 2
    /\ Len(prior) > 1
    /\ Len(messages) > Len(prior) + 1
    /\ IsPrefix(prior, messages)

(***************************************************************************)
(* C28: the history a turn starts from.                                    *)
(***************************************************************************)
\* the last message is the preamble or an assistant message without tool
\* calls
ClosedHistory(h) ==
    \/ h[Len(h)] = SystemMessage
    \/ h[Len(h)].role = "assistant" /\ h[Len(h)].tool_calls = << >>

\* two user messages with no assistant message between them
UserPair(h) ==
    \E i, j \in 1..Len(h) :
       /\ i < j
       /\ h[i].role = "user" /\ h[j].role = "user"
       /\ \A k \in (i + 1)..(j - 1) : h[k].role # "assistant"

\* C28 as stated: whenever no chat call is in progress, so that the next
\* one can begin, the last message of the history is the preamble or an
\* assistant message without tool calls, a chat call in progress began from
\* such a history, and the history never holds two user messages with no
\* assistant message between them, also after chat calls that failed.
C28_TurnStartsClosed ==
    /\ Quiet => ClosedHistory(messages)
    /\ ~Quiet => ClosedHistory(prior)
    /\ ~UserPair(messages)

\* C28, amended: a chat call that begins after the construction of the
\* session, after a reset or after a chat call that returned starts from a
\* history whose last message is the preamble or an assistant message
\* without tool calls.  A chat call that begins after a chat call that failed
\* starts from the history the failure left, nothing being rolled back: the
\* history the failed call began with if the retrieval failed; otherwise one
\* that ends with the user message of the failed call if the first model
\* call failed, with its tool-call message if the loop over the tool calls
\* failed, and with its last tool message if the second model call failed.
C28_TurnStartsAsLeft ==
    /\ pc \in {"ready", "returned"} => ClosedHistory(messages)
    /\ pc = "failed" =>
          /\ outcome.step = "retrieve" => messages = prior
          /\ outcome.step = "llm1" =>
                /\ messages[Len(messages)].role = "user"
                /\ Len(messages) = Len(prior) + 1
          /\ outcome.step \in {"json.loads", "execute_tool"} =>
                messages[Len(messages)] = ToolCallMessage(tool_calls)
          /\ outcome.step = "llm2" =>
                /\ messages[Len(messages)].role = "tool"
                /\ messages[Len(messages)] = tool_results[Len(tool_results)]
    /\ ~Quiet => IsPrefix(prior, messages)

\* the first model call of a chat call failed and the next chat call has
\* begun: its user message follows the user message of the failed call
C28_Witness ==
    /\ pc = "llm1"
    /\ turns = 2
    /\ Len(prior) = 2
    /\ prior[2].role = "user"
    /\ messages = Append(prior, messages[3])
    /\ messages[3].role = "user"

(***************************************************************************)
(* C29: a reset served while a turn of the same session is in flight.      *)
(***************************************************************************)
\* C29: once no chat call is in progress on a session, whatever resets were
\* served during its turns, every tool message of its history has before it
\* an assistant message that issued its call identifier, and every
\* assistant message has a user message before it.
C29_ResetRaceKeepsPairing ==
    \A s \in DOMAIN sessions :
       (\A t \in Threads : InChat(t) => threads[t].sid # s) =>
          LET h == sessions[s].messages
          IN  \A k \in 1..Len(h) :
                 /\ h[k].role = "tool" =>
                       \E j \in 1..(k - 1) :
                          /\ h[j].role = "assistant"
                          /\ h[k].tool_call_id \in IssuedIds(h[j])
                 /\ h[k].role = "assistant" =>
                       \E j \in 1..(k - 1) : h[j].role = "user"

(***************************************************************************)
(* C30: no use of an agent's resources after close.                        *)
(***************************************************************************)
\* C30: no chat call has run a retrieval on the vector-store connection of
\* its agent, or sent a tool's request through the agent's API client, after
\* a logout closed them.
C30_NoUseAfterClose ==
    \A s \in DOMAIN sessions : ~sessions[s].late

(***************************************************************************)
(* Two logins served at once (web_app.login, line 142): each HiveAgent     *)
(* constructor makes its own RAGRetriever, and each RAGRetriever its own   *)
(* connection to the one collection table.  Every statement sent to the    *)
(* server is a step.                                                       *)
(***************************************************************************)
\* the ids of a list of loaded documents
DocIds(docs) == {docs[k].id : k \in 1..Len(docs)}

\* the row of id was written by a transaction of another connection that is
\* still open: an INSERT ... ON CONFLICT of b on that id waits for its end
RowLocked(b, id) == \E o \in Builders \ {b} : id \in DOMAIN builders[o].pending

\* an exception leaves the constructor: the login answers 500, the retriever
\* is dropped and the server rolls back what its connection had written
BuildRaise(b) ==
    builders' = [builders EXCEPT ![b].pc = "raised", ![b].pending = EmptyRows]

\* retriever.py 26-35 and vectorstore.py 33-56, 140-152: connect, then the
\* count test on the committed rows
BuildConstruct(b) ==
    /\ builders[b].pc = "absent"
    /\ \/ \* psycopg2.connect or _init_table raises
          BuildRaise(b)
       \/ builders' = [builders EXCEPT ![b].count_seen = Count(store),
                                       ![b].pc = IF Count(store) = 0 THEN "load"
                                                 ELSE "ready"]
    /\ UNCHANGED << corpus, store, conn, rag, rag_log, upserted, agent_vars, next_id,
                    web_vars, cli >>

\* line 44: load_knowledge_base
BuildLoad(b) ==
    /\ builders[b].pc = "load"
    /\ \/ \* a file cannot be read, or a document lacks id or text
          BuildRaise(b)
       \/ builders' = [builders EXCEPT ![b].docs = LoadKnowledgeBase(corpus),
                                       ![b].pc = "embed"]
    /\ UNCHANGED << corpus, store, conn, rag, rag_log, upserted, agent_vars, next_id,
                    web_vars, cli >>

\* line 46: embed_batch over the texts of the documents
BuildEmbedBatch(b) ==
    /\ builders[b].pc = "embed"
    /\ \/ \* the backend call raises
          BuildRaise(b)
       \/ \E p \in Orders(Len(builders[b].docs)) :
            LET texts == [k \in 1..Len(builders[b].docs) |-> builders[b].docs[k].text]
            IN  builders' = [builders EXCEPT
                                ![b].embeddings = EmbedBatch(BatchResponse(texts, p)),
                                ![b].pc = "upsert"]
    /\ UNCHANGED << corpus, store, conn, rag, rag_log, upserted, agent_vars, next_id,
                    web_vars, cli >>

\* vectorstore.py 94-110: the next execute of upsert; the row it writes stays
\* in the transaction of the connection
BuildExecute(b) ==
    /\ builders[b].pc = "upsert"
    /\ LET pairs == Zip(builders[b].docs, builders[b].embeddings)
           n     == builders[b].done + 1
       IN  /\ n <= Len(pairs)
           /\ \/ \* the execute raises
                 BuildRaise(b)
              \/ /\ ~RowLocked(b, pairs[n].doc.id)
                 /\ builders' = [builders EXCEPT
                                    ![b].pending = UpsertRow(@, pairs[n].doc.id,
                                                       Row(pairs[n].doc, pairs[n].emb)),
                                    ![b].done = n]
    /\ UNCHANGED << corpus, store, conn, rag, rag_log, upserted, agent_vars, next_id,
                    web_vars, cli >>

\* the commit replaces the table by the rows of the transaction
BuildCommitReplaces(b) ==
    /\ builders[b].pc = "upsert"
    /\ builders[b].done = Len(Zip(builders[b].docs, builders[b].embeddings))
    /\ store' = builders[b].pending
    /\ builders' = [builders EXCEPT ![b].pc = "ready", ![b].pending = EmptyRows]
    /\ UNCHANGED << corpus, conn, rag, rag_log, upserted, agent_vars, next_id,
                    web_vars, cli >>

\* vectorstore.py 112: every execute went through; commit, and the
\* constructor returns
BuildCommit(b) ==
    /\ builders[b].pc = "upsert"
    /\ builders[b].done = Len(Zip(builders[b].docs, builders[b].embeddings))
    /\ store' = View(builders[b], store)
    /\ builders' = [builders EXCEPT ![b].pc = "ready", ![b].pending = EmptyRows]
    /\ UNCHANGED << corpus, conn, rag, rag_log, upserted, agent_vars, next_id,
                    web_vars, cli >>

NextBuild ==
    \/ \E b \in Builders : BuildConstruct(b)
    \/ \E b \in Builders : BuildLoad(b)
    \/ \E b \in Builders : BuildEmbedBatch(b)
    \/ \E b \in Builders : BuildExecute(b)
    \/ \E b \in Builders : BuildCommit(b)
    \/ EditCorpus

SpecBuild == Init /\ [][NextBuild]_vars

(***************************************************************************)
(* C31: two constructors at once on the empty collection.                  *)
(***************************************************************************)
\* both constructors read count 0, built the index and returned
BothBuilt == \A b \in Builders : builders[b].pc = "ready" /\ builders[b].count_seen = 0

\* the collection after one build of the documents docs on the empty table
SingleBuild(docs) ==
    Executed(EmptyRows,
             Zip(docs, [k \in 1..Len(docs) |-> Embedding(docs[k].text)]), Len(docs))

\* C31: when two constructors run at once on the empty collection, both read
\* count 0 and both return, the collection (one row per id, by its primary
\* key) holds a record for every id one of them loaded and for no other id;
\* when both loaded the same documents it is the collection a single build
\* of these documents leaves.
C31_ConcurrentFirstBuild ==
    BothBuilt =>
        /\ DOMAIN store = UNION {DocIds(builders[b].docs) : b \in Builders}
        /\ builders[1].docs = builders[2].docs => store = SingleBuild(builders[1].docs)

\* both constructors read count 0, loaded the same two documents and
\* returned, and the collection holds the two records
C31_Witness ==
    /\ BothBuilt
    /\ builders[1].docs = builders[2].docs
    /\ Len(builders[1].docs) = 2
    /\ Count(store) = 2

(***************************************************************************)
(* C32: index builds never delete.                                         *)
(***************************************************************************)
\* C32: no step of the retriever removes a record of the collection or
\* lowers its count, and a rebuild_index call that returns leaves in the
\* collection exactly the ids stored before it and the ids of the corpus it
\* loaded, the records of ids no longer in the corpus as they were.
C32_BuildsNeverDelete ==
    [][ /\ DOMAIN store \subseteq DOMAIN store'
        /\ Count(store') >= Count(store)
        /\ ( /\ rag_log.op = "rebuild" /\ rag_log.ended = "running"
             /\ rag_log'.ended = "returned" )
           => LET ids == {rag_log'.loaded[k].id : k \in 1..Len(rag_log'.loaded)}
              IN  /\ DOMAIN store' = DOMAIN store \cup ids
                  /\ \A id \in DOMAIN store \ ids : store'[id] = store[id] ]_vars

====
